---- MODULE Spec2Model ----
(***************************************************************************)
(* Session manager of lstoll/web (package session): the Manager in cookie  *)
(* mode and in KV mode, the Session handle, the hookRW response writer,    *)
(* the cookie codec (expiry header, zlib, XChaCha20-Poly1305, base64) and  *)
(* the in-memory KV.                                                       *)
(*                                                                         *)
(* Byte strings are modelled by how they were built: every []byte and      *)
(* every string is a record with a tag field t.  A conversion wraps its    *)
(* argument in a new tag, the inverse conversion accepts that tag only, so *)
(* a decoder applied to bytes of another layer fails as it does in Go.     *)
(***************************************************************************)
EXTENDS Integers, Sequences, FiniteSets, TLC

\* ------------------------------------------------------------------ bounds
MaxReq == 3
MaxOps == 2
MaxWrites == 1
MaxTime == 2
TicksPerSec == 3
IdleTicks == 1
LifeTicks == 2
MaxDur == 3
MaxMapOps == 4
MaxGoCalls == 3
NGor == 3

\* ------------------------------------------------------- program constants
managerCompressThreshold == 512
managerMaxCookieSize == 4096
NonceSizeX == 24
Overhead == 16
ExpiryHeaderLen == 8
StatusInternalServerError == 500
StatusOK == 200

managerCookieMagic == "EU1"
managerCompressedCookieMagic == "EC1"

\* time.Time{}: the zero time, year 1, far before every clock value.
ZeroTime == 0 - 1000


\* ------------------------------------------------------------- byte model
NilBytes == [t |-> "nil"]

\* A payload handed to the cookie codec by a caller: n bytes that zlib turns
\* into z bytes once the 8-byte expiry header is in front of them.
Raw(id, n, z) == [t |-> "raw", id |-> id, len |-> n, zlen |-> z]

\* expiry header (8 bytes, little endian seconds) followed by body
WithExpiry(sec, body) == [t |-> "exp", sec |-> sec, body |-> body]

\* a zlib stream holding body
ZlibStream(body) == [t |-> "zlib", body |-> body]

\* nonce || Seal(nonce, pt, ad) under key; intact = the tag still verifies
Sealed(key, ad, pt) == [t |-> "xcp", key |-> key, ad |-> ad, pt |-> pt, intact |-> TRUE]

\* fewer bytes than one nonce
ShortBytes == [t |-> "short"]

\* bytes that no layer of the codec produced
JunkBytes == [t |-> "junkbytes"]

\* gob stream of a persistedSession
GobStream(rec) == [t |-> "gob", rec |-> rec]

\* ---------------------------------------------------------- session data
Keys == {"a", "b"}

\* values a handler stores: "1" is a short string, "big" 5000 random bytes,
\* "fn" a value gob cannot encode (a type that was never registered).
ValsOf(k) == IF k = "a" THEN {"1", "big"} ELSE {"1", "fn"}

ValLen(v) == CASE v = "1" -> 1 [] v = "big" -> 5000 [] OTHER -> 0
ValZLen(v) == CASE v = "1" -> 1 [] v = "big" -> 5000 [] OTHER -> 0

EmptyMap == [k \in {} |-> "1"]
MapRemove(f, k) == [x \in (DOMAIN f) \ {k} |-> f[x]]
MapPut(f, k, v) == [x \in (DOMAIN f) \cup {k} |-> IF x = k THEN v ELSE f[x]]

RECURSIVE SumVals(_, _, _)
SumVals(f, S, compressed) ==
    IF S = {} THEN 0
    ELSE LET k == CHOOSE x \in S : TRUE
         IN (IF compressed THEN ValZLen(f[k]) ELSE ValLen(f[k]))
            + SumVals(f, S \ {k}, compressed)

MsgLen(msg) == IF msg = "" THEN 0 ELSE 10

flashLevelNone == ""
flashLevelInfo == "info"
flashLevelError == "error"

persistedSession(data, created, updated, flash, msg) ==
    [Data |-> data, CreatedAt |-> created, UpdatedAt |-> updated,
     Flash |-> flash, FlashMsg |-> msg]

\* gob's framing of a persistedSession without its values
GobFrame == 120

GobLen(rec) == GobFrame + SumVals(rec.Data, DOMAIN rec.Data, FALSE) + MsgLen(rec.FlashMsg)
GobZLen(rec) == GobFrame + SumVals(rec.Data, DOMAIN rec.Data, TRUE) + MsgLen(rec.FlashMsg)

RECURSIVE BLen(_)
BLen(b) ==
    CASE b.t = "nil" -> 0
      [] b.t = "raw" -> b.len
      [] b.t = "gob" -> GobLen(b.rec)
      [] b.t = "exp" -> ExpiryHeaderLen + BLen(b.body)
      [] b.t = "zlib" -> IF b.body.t = "exp" /\ b.body.body.t = "raw" THEN b.body.body.zlen
                         ELSE IF b.body.t = "exp" /\ b.body.body.t = "gob" THEN GobZLen(b.body.body.rec)
                         ELSE BLen(b.body)
      [] b.t = "xcp" -> NonceSizeX + BLen(b.pt) + Overhead
      [] b.t = "short" -> NonceSizeX - 1
      [] OTHER -> 40

\* ------------------------------------------------------------------ codec
\* the concrete Go type of a value kept in the data map
TypeOf(v) ==
    CASE v = "1" -> "string"
      [] v = "big" -> "[]uint8"
      [] v = "fn" -> "func()"
      [] v = "nested" -> "map[string]interface {}"
      [] v = "when" -> "time.Time"
      [] OTHER -> "string"

\* the types gob can send inside an interface value: the basic types gob
\* registers itself and the one type this package registers
GobRegisteredTypes == {"string", "[]uint8", "int", "bool", "float64", "persistedSession"}

\* a value of the map has a type that is not registered
Unencodable(rec) == \E k \in DOMAIN rec.Data : TypeOf(rec.Data[k]) \notin GobRegisteredTypes

gobEncode(rec) ==
    IF Unencodable(rec) THEN [err |-> "encoding session data", data |-> NilBytes]
    ELSE [err |-> "", data |-> GobStream(rec)]

gobDecode(b) ==
    IF b.t = "gob" THEN [err |-> "", rec |-> b.rec]
    ELSE [err |-> "decoding session data",
          rec |-> persistedSession(EmptyMap, ZeroTime, ZeroTime, flashLevelNone, "")]

\* ------------------------------------------------------------------- AEAD
AeadKeys == {"K1", "K2", "K3"}

xchaPolyAEAD(ek, dks) == [encryptionKey |-> ek, decryptionKeys |-> dks]

Encrypt(x, plaintext, associatedData) ==
    [err |-> "", ct |-> Sealed(x.encryptionKey, associatedData, plaintext)]

OpenIgnoresAD(key, ciphertext, associatedData) ==
    IF ciphertext.t = "xcp" /\ ciphertext.intact /\ ciphertext.key = key
    THEN [ok |-> TRUE,
          pt |-> IF BLen(ciphertext.pt) = 0 THEN NilBytes ELSE ciphertext.pt]
    ELSE [ok |-> FALSE, pt |-> NilBytes]

\* aead.Open(nil, nonce, ct, ad): authenticates under exactly the key and the
\* associated data of Seal; the plaintext is appended to a nil slice, so an
\* empty plaintext comes back as the nil slice.
Open(key, ciphertext, associatedData) ==
    IF ciphertext.t = "xcp" /\ ciphertext.intact
       /\ ciphertext.key = key /\ ciphertext.ad = associatedData
    THEN [ok |-> TRUE,
          pt |-> IF BLen(ciphertext.pt) = 0 THEN NilBytes ELSE ciphertext.pt]
    ELSE [ok |-> FALSE, pt |-> NilBytes]

DecryptKeyOrder(x) == <<x.encryptionKey>> \o x.decryptionKeys

\* the loop over the keys: the plaintext of the first key that opens the
\* ciphertext, the nil slice if none does
RECURSIVE TryKeys(_, _, _)
TryKeys(keys, ciphertext, associatedData) ==
    IF keys = <<>> THEN NilBytes
    ELSE LET Step(r) == IF r.ok THEN r.pt
                        ELSE TryKeys(Tail(keys), ciphertext, associatedData)
         IN Step(Open(Head(keys), ciphertext, associatedData))

Decrypt(x, ciphertext, associatedData) ==
    LET Result(plaintext) == IF plaintext = NilBytes
                             THEN [err |-> "failed to decrypt data", pt |-> NilBytes]
                             ELSE [err |-> "", pt |-> plaintext]
    IN IF BLen(ciphertext) < NonceSizeX
       THEN [err |-> "invalid ciphertext", pt |-> NilBytes]
       ELSE Result(TryKeys(DecryptKeyOrder(x), ciphertext, associatedData))

\* ------------------------------------------------------------- compressor
Compress(data) == [err |-> "", data |-> ZlibStream(data)]

\* zlib.NewReader / Reset reject whatever is not a zlib stream
Decompress(data) ==
    IF data.t = "zlib" THEN [err |-> "", data |-> data.body]
    ELSE [err |-> "creating reader", data |-> NilBytes]

\* ------------------------------------------------------------------ clock
\* time.Time.Unix(): whole seconds, the fraction dropped
UnixSec(t) == t \div TicksPerSec

\* time.Unix(sec, 0)
FromUnix(sec) == sec * TicksPerSec

\* --------------------------------------------------------- cookie strings
\* base64.RawURLEncoding.EncodeToString
B64(bytes) == [t |-> "b64", of |-> bytes]

\* characters outside the base64url alphabet
NotB64 == [t |-> "notb64"]

B64Len(n) == (4 * n + 2) \div 3

\* magic + "." + encoded
CookieString(magic, enc) == [t |-> "cv", magic |-> magic, enc |-> enc]

\* a string without any "."
NoDotString == [t |-> "nodot"]

\* rand.Text(): 26 base32 characters, the n-th value drawn
SID(n) == [t |-> "sid", n |-> n]

StrLen(s) ==
    CASE s.t = "cv" -> 3 + 1 + (IF s.enc.t = "b64" THEN B64Len(BLen(s.enc.of)) ELSE 8)
      [] s.t = "sid" -> 26
      [] OTHER -> 5

\* strings.SplitN(cookieValue, ".", 2) has two parts
HasTwoParts(s) == s.t = "cv"

DecodeString(enc) ==
    IF enc.t = "b64" THEN [err |-> "", data |-> enc.of]
    ELSE [err |-> "illegal base64 data", data |-> NilBytes]

\* ------------------------------------------------------- response headers
\* one Set-Cookie line, "name=value; Max-Age=..."
SetCookieLine(name, value, maxAge) == [name |-> name, value |-> value, maxAge |-> maxAge]

\* the value of a cookie that is being cleared
EmptyString == [t |-> "empty"]

managerRemoveCookieByNameKeepsAll(header, cookieName) == header

managerRemoveCookieByNameDropsAll(header, cookieName) == <<>>

managerRemoveCookieByName(header, cookieName) ==
    LET keep(c) == c.name # cookieName
    IN SelectSeq(header, keep)

\* SessionCookieOpts.newCookie with Persist unset, then http.SetCookie
SetSessionCookie(header, name, value) ==
    Append(managerRemoveCookieByName(header, name), SetCookieLine(name, value, 0))

SetDeleteCookie(header, name) ==
    Append(managerRemoveCookieByName(header, name), SetCookieLine(name, EmptyString, 0 - 1))

\* ----------------------------------------------------------- cookie codec
\* magic + "." + base64(Encrypt(packed, cookie name))
sealCookie(m, magic, packed) ==
    CookieString(magic, B64(Encrypt(m.aead, packed, m.cookieName).ct))

\* the cookie value saveToCookie formats: compressed first when asked to
formatCookie(m, dataWithExpiry, compress) ==
    IF compress
    THEN sealCookie(m, managerCompressedCookieMagic, Compress(dataWithExpiry).data)
    ELSE sealCookie(m, managerCookieMagic, dataWithExpiry)

\* the value saveToCookie produces for a payload, whatever its size
cookieValueOf(m, expiresAt, data) ==
    LET Go(dataWithExpiry) ==
            formatCookie(m, dataWithExpiry,
                         ~m.compressionDisabled /\ BLen(dataWithExpiry) > managerCompressThreshold)
    IN Go(WithExpiry(UnixSec(expiresAt), data))

\* m: the Manager.  Returns the error and the response headers afterwards.
saveToCookieNoLimit(m, header, expiresAt, data) ==
    [err |-> "", header |-> SetSessionCookie(header, m.cookieName, cookieValueOf(m, expiresAt, data))]

saveToCookie(m, header, expiresAt, data) ==
    LET Emit(cookieValue) ==
            IF StrLen(cookieValue) > managerMaxCookieSize
            THEN [err |-> "cookie size is greater than max", header |-> header]
            ELSE [err |-> "", header |-> SetSessionCookie(header, m.cookieName, cookieValue)]
    IN Emit(cookieValueOf(m, expiresAt, data))

LoadErr(msg) == [err |-> msg, data |-> NilBytes]

\* decode, check the magic, decompress, decrypt, check the expiry: in the
\* order of the source.  Plaintext that does not start with an expiry header
\* (the magic of a compressed cookie rewritten to EU1) has its first eight
\* bytes read as a time that has not passed; what follows is no gob stream.
loadFromCookie(m, cookieValue, clock) ==
    LET CheckExpiry(pt) ==
            IF BLen(pt) < ExpiryHeaderLen THEN LoadErr("decrypted data too short")
            ELSE IF pt.t # "exp" THEN [err |-> "", data |-> JunkBytes]
            ELSE IF FromUnix(pt.sec) < clock THEN LoadErr("cookie expired")
            ELSE [err |-> "", data |-> pt.body]
        AfterDecrypt(decrypted) ==
            IF decrypted.err # "" THEN LoadErr("decrypting cookie")
            ELSE CheckExpiry(decrypted.pt)
        AfterDecompress(inflated) ==
            IF inflated.err # "" THEN LoadErr("decompressing cookie")
            ELSE AfterDecrypt(Decrypt(m.aead, inflated.data, m.cookieName))
        AfterDecode(magic, decoded) ==
            IF decoded.err # "" THEN LoadErr("decoding cookie string")
            ELSE IF magic # managerCompressedCookieMagic /\ magic # managerCookieMagic
            THEN LoadErr("cookie has bad magic prefix")
            ELSE AfterDecompress(IF magic = managerCompressedCookieMagic
                                 THEN Decompress(decoded.data)
                                 ELSE [err |-> "", data |-> decoded.data])
    IN IF ~HasTwoParts(cookieValue)
       THEN LoadErr("cookie does not contain two . separated parts")
       ELSE AfterDecode(cookieValue.magic, DecodeString(cookieValue.enc))

\* --------------------------------------------------------------------- KV
\* memoryKV.contents as the set of its entries, one per key
kvItem(key, data, expiresAt) == [key |-> key, data |-> data, expiresAt |-> expiresAt]

kvHas(contents, key) == \E it \in contents : it.key = key
kvAt(contents, key) == CHOOSE it \in contents : it.key = key

\* memoryKV.Get: an entry whose expiry has passed is removed and not found
memoryKVGet(contents, key, clock) ==
    IF ~kvHas(contents, key)
    THEN [data |-> NilBytes, found |-> FALSE, contents |-> contents]
    ELSE LET v == kvAt(contents, key)
         IN IF clock > v.expiresAt
            THEN [data |-> NilBytes, found |-> FALSE, contents |-> contents \ {v}]
            ELSE [data |-> v.data, found |-> TRUE, contents |-> contents]

memoryKVSetKeepsExpiry(contents, key, expiresAt, value) ==
    IF kvHas(contents, key)
    THEN {it \in contents : it.key # key} \cup {kvItem(key, value, kvAt(contents, key).expiresAt)}
    ELSE contents \cup {kvItem(key, value, expiresAt)}

memoryKVSet(contents, key, expiresAt, value) ==
    {it \in contents : it.key # key} \cup {kvItem(key, value, expiresAt)}

memoryKVDeleteNothing(contents, key) == contents

memoryKVDelete(contents, key) == {it \in contents : it.key # key}

managerHashSessionIDRaw(id) == id

\* sha256 of the identifier, hex encoded: never the identifier itself
managerHashSessionID(id) == [t |-> "sha256hex", of |-> id]

\* one call on the KV interface
KVCall(op, key) == [op |-> op, key |-> key]

\* --------------------------------------------------------- Session handle
NewSession(created) ==
    [sessdata |-> persistedSession(EmptyMap, created, ZeroTime, flashLevelNone, ""),
     datab |-> NilBytes, delete |-> FALSE, save |-> FALSE, reset |-> FALSE]

NoValue == "<nil>"

SessionGet(s, key) == IF key \in DOMAIN s.sessdata.Data THEN s.sessdata.Data[key] ELSE NoValue

mapsCloneSameMap(obj, fresh) == obj

\* maps.Clone: a new map object with the same top-level keys and values
mapsClone(obj, fresh) == fresh

SessionGetAll(s) == [k \in DOMAIN s.sessdata.Data |-> s.sessdata.Data[k]]

SessionSetKeepsDelete(s, key, value) ==
    [s EXCEPT !.save = TRUE, !.sessdata.Data = MapPut(@, key, value)]

SessionSet(s, key, value) ==
    [s EXCEPT !.delete = FALSE, !.save = TRUE, !.sessdata.Data = MapPut(@, key, value)]

SessionSetAll(s, data) ==
    [s EXCEPT !.delete = FALSE, !.save = TRUE, !.sessdata.Data = data]

SessionDelete(s) ==
    [s EXCEPT !.datab = NilBytes,
              !.sessdata = persistedSession(EmptyMap, ZeroTime, ZeroTime, flashLevelNone, ""),
              !.delete = TRUE, !.save = FALSE, !.reset = FALSE]

SessionReset(s) ==
    [s EXCEPT !.datab = NilBytes, !.save = FALSE, !.delete = FALSE, !.reset = TRUE]

SessionHasFlash(s) == s.sessdata.Flash # flashLevelNone

SessionFlashIsError(s) == s.sessdata.Flash = flashLevelError

\* the handle after FlashMessage; the message returned is s.sessdata.FlashMsg
SessionFlashMessage(s) ==
    IF s.sessdata.FlashMsg = "" THEN s
    ELSE [s EXCEPT !.sessdata.FlashMsg = "", !.save = TRUE]

SessionSetFlashError(s, message) ==
    [s EXCEPT !.sessdata.FlashMsg = message, !.sessdata.Flash = flashLevelError, !.save = TRUE]

SessionSetFlashMessage(s, message) ==
    [s EXCEPT !.sessdata.FlashMsg = message, !.sessdata.Flash = flashLevelInfo, !.save = TRUE]


\* ---------------------------------------------------------------- Manager
storageModeCookie == "cookie"
storageModeKV == "kv"

Manager(mode, aead, compressionDisabled, name, maxLifetime, idleTimeout) ==
    [storageMode |-> mode, aead |-> aead, compressionDisabled |-> compressionDisabled,
     cookieName |-> name, MaxLifetime |-> maxLifetime, IdleTimeout |-> idleTimeout]

ValidOptsAlways(maxLifetime, idleTimeout) == TRUE

\* NewCookieManager / NewKVManager refuse options without any expiry bound
ValidOpts(maxLifetime, idleTimeout) == ~(idleTimeout = 0 /\ maxLifetime = 0)

NoCookie == [t |-> "nocookie"]

\* no session id stored in the request context: the empty string
NoID == [t |-> "noid"]

\* the loop over invalidTimes[1:], keeping the time that is Before the other
RECURSIVE EarliestOf(_, _)
EarliestOf(earliestInvalidAt, rest) ==
    IF rest = <<>> THEN earliestInvalidAt
    ELSE EarliestOf(IF Head(rest) < earliestInvalidAt THEN Head(rest) ELSE earliestInvalidAt,
                    Tail(rest))

\* the latest bound instead of the earliest
calculateExpiryLatest(m, sessdata) ==
    LET Later(a, b) == IF a > b THEN a ELSE b
    IN IF m.MaxLifetime # 0 /\ m.IdleTimeout # 0
       THEN Later(sessdata.CreatedAt + m.MaxLifetime, sessdata.UpdatedAt + m.IdleTimeout)
       ELSE IF m.MaxLifetime # 0 THEN sessdata.CreatedAt + m.MaxLifetime
       ELSE IF m.IdleTimeout # 0 THEN sessdata.UpdatedAt + m.IdleTimeout
       ELSE ZeroTime

calculateExpiryIdleFromCreated(m, sessdata) ==
    LET Pick(invalidTimes) ==
            IF Len(invalidTimes) = 0 THEN ZeroTime
            ELSE EarliestOf(Head(invalidTimes), Tail(invalidTimes))
    IN Pick((IF m.MaxLifetime # 0 THEN <<sessdata.CreatedAt + m.MaxLifetime>> ELSE <<>>)
            \o (IF m.IdleTimeout # 0 THEN <<sessdata.CreatedAt + m.IdleTimeout>> ELSE <<>>))

\* invalidTimes collects the bound of each option that is set; the result is
\* the earliest of them, the zero time when there is none
calculateExpiry(m, sessdata) ==
    LET Pick(invalidTimes) ==
            IF Len(invalidTimes) = 0 THEN ZeroTime
            ELSE EarliestOf(Head(invalidTimes), Tail(invalidTimes))
    IN Pick((IF m.MaxLifetime # 0 THEN <<sessdata.CreatedAt + m.MaxLifetime>> ELSE <<>>)
            \o (IF m.IdleTimeout # 0
                THEN <<IF sessdata.UpdatedAt # ZeroTime
                       THEN sessdata.UpdatedAt + m.IdleTimeout
                       ELSE sessdata.CreatedAt + m.IdleTimeout>>
                ELSE <<>>))

\* loadFromKV; getFault: the backend's Get returns an error
loadFromKV(m, contents, sessionID, clock, getFault) ==
    LET Got(storeKey, got) ==
            IF getFault
            THEN [err |-> "getting from KV", data |-> NilBytes, contents |-> contents,
                  calls |-> <<KVCall("Get", storeKey)>>]
            ELSE [err |-> "", data |-> got.data, contents |-> got.contents,
                  calls |-> <<KVCall("Get", storeKey)>>]
    IN Got(managerHashSessionID(sessionID),
           memoryKVGet(contents, managerHashSessionID(sessionID), clock))

loadSession(m, contents, cookie, clock, getFault) ==
    LET FromCookie(r) == [err |-> r.err, data |-> r.data, contents |-> contents, calls |-> <<>>]
    IN IF cookie = NoCookie
       THEN [err |-> "", data |-> NilBytes, contents |-> contents, calls |-> <<>>]
       ELSE IF m.storageMode = storageModeCookie
       THEN FromCookie(loadFromCookie(m, cookie, clock))
       ELSE loadFromKV(m, contents, cookie, clock, getFault)

WrapLoadKeepsDecoded(m, contents, cookie, clock, getFault) ==
    LET Attach(fresh, loaded, decoded) ==
            [sctx |-> IF loaded.err # "" \/ loaded.data = NilBytes
                      THEN fresh
                      ELSE [fresh EXCEPT !.sessdata = decoded.rec,
                                         !.datab = IF m.IdleTimeout # 0 THEN loaded.data
                                                   ELSE NilBytes],
             contents |-> loaded.contents,
             calls |-> loaded.calls,
             loadErr |-> IF loaded.err # "" THEN loaded.err
                         ELSE IF loaded.data # NilBytes THEN decoded.err ELSE ""]
        Loaded(loaded) == Attach(NewSession(clock), loaded, gobDecode(loaded.data))
    IN Loaded(loadSession(m, contents, cookie, clock, getFault))

\* The part of Wrap before next.ServeHTTP: the Session attached to the
\* request, with the KV as the load left it.
WrapLoad(m, contents, cookie, clock, getFault) ==
    LET Attach(fresh, loaded, decoded) ==
            [sctx |-> IF loaded.err # "" \/ loaded.data = NilBytes \/ decoded.err # ""
                      THEN fresh
                      ELSE [fresh EXCEPT !.sessdata = decoded.rec,
                                         !.datab = IF m.IdleTimeout # 0 THEN loaded.data
                                                   ELSE NilBytes],
             contents |-> loaded.contents,
             calls |-> loaded.calls,
             loadErr |-> IF loaded.err # "" THEN loaded.err
                         ELSE IF loaded.data # NilBytes THEN decoded.err ELSE ""]
        Loaded(loaded) == Attach(NewSession(clock), loaded, gobDecode(loaded.data))
    IN Loaded(loadSession(m, contents, cookie, clock, getFault))

\* What the hook works on: the KV, the underlying writer (header, status,
\* body), the session id kept in the request context, the next value of
\* rand.Text() and the calls made on the KV interface.
Effects(contents, header, status, body, ctxID, nextId, calls) ==
    [contents |-> contents, header |-> header, status |-> status, body |-> body,
     ctxID |-> ctxID, nextId |-> nextId, calls |-> calls]

\* the identifier is kept, the row written and the cookie set
storeRow(m, e, sessionID, fresh, expiresAt, data, setFault) ==
    LET Stored(storeKey, e1) ==
            IF setFault THEN [err |-> "storing in KV", e |-> e1]
            ELSE [err |-> "",
                  e |-> [e1 EXCEPT !.contents = memoryKVSet(@, storeKey, expiresAt, data),
                                   !.header = SetSessionCookie(@, m.cookieName, sessionID)]]
    IN Stored(managerHashSessionID(sessionID),
              [e EXCEPT !.ctxID = sessionID,
                        !.nextId = IF fresh THEN @ + 1 ELSE @,
                        !.calls = Append(@, KVCall("Set", managerHashSessionID(sessionID)))])

saveToKV(m, e, sctx, expiresAt, data, setFault) ==
    IF e.ctxID = NoID \/ sctx.reset
    THEN storeRow(m, e, SID(e.nextId), TRUE, expiresAt, data, setFault)
    ELSE storeRow(m, e, e.ctxID, FALSE, expiresAt, data, setFault)

saveSession(m, e, sctx, setFault) ==
    LET ToCookie(r) == [err |-> r.err, e |-> [e EXCEPT !.header = r.header]]
        Encoded(enc) ==
            IF enc.err # "" THEN [err |-> "encoding session data", e |-> e]
            ELSE IF m.storageMode = storageModeCookie
            THEN ToCookie(saveToCookie(m, e.header, calculateExpiry(m, sctx.sessdata), enc.data))
            ELSE saveToKV(m, e, sctx, calculateExpiry(m, sctx.sessdata), enc.data, setFault)
    IN Encoded(gobEncode(sctx.sessdata))

deleteSession(m, cookie, e, sctx, delFault) ==
    LET FromKV(e1, sessionID) ==
            IF sessionID = NoID
            THEN [err |-> "", e |-> [e1 EXCEPT !.ctxID = SID(e.nextId), !.nextId = @ + 1]]
            ELSE IF delFault
            THEN [err |-> "deleting from KV",
                  e |-> [e1 EXCEPT !.calls = Append(@, KVCall("Delete", managerHashSessionID(sessionID)))]]
            ELSE [err |-> "",
                  e |-> [e1 EXCEPT !.calls = Append(@, KVCall("Delete", managerHashSessionID(sessionID))),
                                   !.contents = memoryKVDelete(@, managerHashSessionID(sessionID)),
                                   !.ctxID = SID(e.nextId),
                                   !.nextId = @ + 1]]
        Cleared(e1) ==
            IF m.storageMode # storageModeKV THEN [err |-> "", e |-> e1]
            ELSE FromKV(e1, IF e.ctxID # NoID THEN e.ctxID
                            ELSE IF cookie # NoCookie THEN cookie ELSE NoID)
    IN Cleared([e EXCEPT !.header = SetDeleteCookie(@, m.cookieName)])

touchSessionReencodes(m, cookie, e, sctx, setFault) ==
    saveSession(m, [e EXCEPT !.ctxID = IF @ = NoID /\ cookie # NoCookie THEN cookie ELSE @],
                sctx, setFault)

touchSessionStaleExpiry(m, cookie, e, sctx, setFault) ==
    LET ToCookie(r) == [err |-> r.err, e |-> [e EXCEPT !.header = r.header]]
        Touched(sessionID, e1) ==
            [err |-> "",
             e |-> [e1 EXCEPT !.contents = memoryKVSet(@, managerHashSessionID(sessionID),
                                                       calculateExpiry(m, gobDecode(sctx.datab).rec),
                                                       sctx.datab),
                              !.header = SetSessionCookie(@, m.cookieName, sessionID)]]
        InKV(sessionID) ==
            Touched(sessionID,
                    [e EXCEPT !.ctxID = sessionID,
                              !.calls = Append(@, KVCall("Set", managerHashSessionID(sessionID)))])
    IN IF m.storageMode = storageModeCookie
       THEN ToCookie(saveToCookie(m, e.header, calculateExpiry(m, gobDecode(sctx.datab).rec),
                                  sctx.datab))
       ELSE IF e.ctxID = NoID /\ cookie = NoCookie THEN [err |-> "", e |-> e]
       ELSE InKV(IF e.ctxID = NoID THEN cookie ELSE e.ctxID)

touchSession(m, cookie, e, sctx, setFault) ==
    LET ToCookie(r) == [err |-> r.err, e |-> [e EXCEPT !.header = r.header]]
        Touched(sessionID, e1) ==
            IF setFault THEN [err |-> "updating KV expiry", e |-> e1]
            ELSE [err |-> "",
                  e |-> [e1 EXCEPT !.contents = memoryKVSet(@, managerHashSessionID(sessionID),
                                                            calculateExpiry(m, sctx.sessdata),
                                                            sctx.datab),
                                   !.header = SetSessionCookie(@, m.cookieName, sessionID)]]
        InKV(sessionID) ==
            Touched(sessionID,
                    [e EXCEPT !.ctxID = sessionID,
                              !.calls = Append(@, KVCall("Set", managerHashSessionID(sessionID)))])
    IN IF m.storageMode = storageModeCookie
       THEN ToCookie(saveToCookie(m, e.header, calculateExpiry(m, sctx.sessdata), sctx.datab))
       ELSE IF e.ctxID = NoID /\ cookie = NoCookie THEN [err |-> "", e |-> e]
       ELSE InKV(IF e.ctxID = NoID THEN cookie ELSE e.ctxID)

InternalError == "Internal Error"

handleErrSwallow(e) == e

\* http.Error on the underlying writer: status line and body, headers kept
handleErr(e) ==
    [e EXCEPT !.status = IF @ = 0 THEN StatusInternalServerError ELSE @,
              !.body = Append(@, InternalError)]

saveHookAlwaysTouches(m, cookie, sctx, e, clock, delFault, setFault) ==
    LET Saved(s1, sav) ==
            IF sav.err # ""
            THEN [sctx |-> s1, e |-> handleErr(sav.e), ok |-> FALSE, err |-> sav.err]
            ELSE [sctx |-> s1, e |-> sav.e, ok |-> TRUE, err |-> ""]
        Deleted(s1, del) ==
            IF del.err # ""
            THEN [sctx |-> s1, e |-> handleErr(del.e), ok |-> FALSE, err |-> del.err]
            ELSE Saved(s1, IF s1.save \/ s1.reset
                           THEN saveSession(m, del.e, s1, setFault)
                           ELSE touchSession(m, cookie, del.e, s1, setFault))
        Stamped(s1) ==
            Deleted(s1, IF s1.delete \/ s1.reset
                        THEN deleteSession(m, cookie, e, s1, delFault)
                        ELSE [err |-> "", e |-> e])
    IN Stamped([sctx EXCEPT !.sessdata.UpdatedAt = clock])

stampUpdatedAtKeeps(sctx, clock) == sctx

\* sctx.sessdata.UpdatedAt = time.Now(), the first statement of the hook
stampUpdatedAt(sctx, clock) == [sctx EXCEPT !.sessdata.UpdatedAt = clock]

\* The closure returned by saveHook, run once.  Returns the handle (its
\* UpdatedAt set), the effects, and the bool the hook returns.
saveHook(m, cookie, sctx, e, clock, delFault, setFault) ==
    LET Saved(s1, sav) ==
            IF sav.err # ""
            THEN [sctx |-> s1, e |-> handleErr(sav.e), ok |-> FALSE, err |-> sav.err]
            ELSE [sctx |-> s1, e |-> sav.e, ok |-> TRUE, err |-> ""]
        Deleted(s1, del) ==
            IF del.err # ""
            THEN [sctx |-> s1, e |-> handleErr(del.e), ok |-> FALSE, err |-> del.err]
            ELSE Saved(s1, IF s1.save \/ s1.reset
                           THEN saveSession(m, del.e, s1, setFault)
                           ELSE IF m.IdleTimeout # 0 /\ s1.datab # NilBytes
                           THEN touchSession(m, cookie, del.e, s1, setFault)
                           ELSE [err |-> "", e |-> del.e])
        Stamped(s1) ==
            Deleted(s1, IF s1.delete \/ s1.reset
                        THEN deleteSession(m, cookie, e, s1, delFault)
                        ELSE [err |-> "", e |-> e])
    IN Stamped(stampUpdatedAt(sctx, clock))


\* ------------------------------------------------------------------ state
VARIABLES
    m,          \* the Manager, fixed after construction
    contents,   \* memoryKV.contents
    now,        \* the last value time.Now() returned
    nextId,     \* how many values rand.Text() has returned
    jar,        \* session cookie values the responses have handed out
    pc,         \* "idle", "handler" (inside next.ServeHTTP), "done"
    cookie,     \* the session cookie of the request in flight
    ctxID,      \* managerSessionIDCtxKey in the request context
    sctx,       \* the Session attached to the request
    hookOnce,   \* hookRW.hookOnce has run
    hookOK,     \* what the hook returned
    hookErr,    \* the error handleErr logged, "" if none
    loadErr,    \* the warning Wrap logged for the load, "" if none
    w,          \* the underlying http.ResponseWriter: header, status, body
    wret,       \* what the last hookRW.Write returned: "", "ok", "interrupted"
    calls,      \* calls made on the KV interface for this request
    hookRuns,   \* how often the hook closure was entered for this request
    nreq,       \* requests started
    nops,       \* calls the handlers have made on the Session handle
    tc,         \* the case a caller of saveToCookie / loadFromCookie is working on
    ta,         \* the case a caller of the AEAD is working on
    mu,         \* Session.sessdataMu
    gor,        \* where each goroutine of the handler is in a call on the Session
    heap        \* which map objects the Session and the handler refer to

vars == <<m, contents, now, nextId, jar, pc, cookie, ctxID, sctx, hookOnce, hookOK,
          hookErr, loadErr, w, wret, calls, hookRuns, nreq, nops, tc, ta, mu, gor, heap>>

\* goroutines the handler runs
Goroutines == 1..NGor

\* the zero sync.RWMutex: no reader inside, no writer inside, and w, the
\* mutex writers take first, free
RWMutex == [readers |-> 0, writer |-> FALSE, w |-> FALSE]

\* a goroutine that is in no call on the Session
NotCalling == [op |-> "", at |-> "idle"]

\* Map objects by identity.  session: the map s.sessdata.Data refers to;
\* held: the map a GetAll handed to the handler (0: none), heldData what is
\* in it; next: the next object make or maps.Clone creates; handedBack: the
\* handler has passed the held map to SetAll.
NoMapHeld == [session |-> 1, held |-> 0, heldData |-> EmptyMap, next |-> 2, handedBack |-> FALSE]

SessionCookieName == "__Host-session"
OtherCookieName == "lang"

TheAEAD == xchaPolyAEAD("K1", <<>>)

\* constructed managers: both modes, every valid expiry policy
Managers ==
    {Manager(mode, TheAEAD, cd, SessionCookieName, ml, it) :
        mode \in {storageModeCookie, storageModeKV}, cd \in BOOLEAN,
        ml \in {0, LifeTicks}, it \in {0, IdleTicks}}

ConstructedManagers ==
    {x \in Managers : ValidOpts(x.MaxLifetime, x.IdleTimeout) /\ ~x.compressionDisabled}

\* Set-Cookie lines a component in front of the manager may have added
UpstreamHeaders ==
    {<<>>,
     <<SetCookieLine(SessionCookieName, NoDotString, 0),
       SetCookieLine(OtherCookieName, NoDotString, 0)>>}

\* a payload written with the same key by software that used another codec
LegacyPayload == JunkBytes

LegacyCookie ==
    CookieString(managerCookieMagic,
                 B64(Sealed("K1", SessionCookieName, WithExpiry(UnixSec(MaxTime) + 1, LegacyPayload))))

\* and one whose plaintext is shorter than the expiry header
LegacyShortCookie ==
    CookieString(managerCookieMagic, B64(Sealed("K1", SessionCookieName, Raw("legacy", 3, 3))))

LegacyID == SID(0)

\* cookie values a client can send without having been given them
ForgedCookies(mgr) ==
    IF mgr.storageMode = storageModeKV THEN {NoDotString, LegacyID}
    ELSE {NoDotString,
          CookieString("XX9", B64(JunkBytes)),
          CookieString(managerCookieMagic, NotB64),
          CookieString(managerCompressedCookieMagic, B64(JunkBytes)),
          CookieString(managerCookieMagic, B64(JunkBytes)),
          CookieString(managerCookieMagic, B64(ShortBytes)),
          CookieString(managerCookieMagic, B64(Sealed("K2", SessionCookieName, WithExpiry(UnixSec(MaxTime) + 1, LegacyPayload)))),
          LegacyCookie, LegacyShortCookie}

JarCookies == {NoCookie} \cup jar

SetAllInputs == {EmptyMap, [k \in Keys |-> "1"]}

FlashInputs == {"m"}

Writer(header, status, body) == [header |-> header, status |-> status, body |-> body]

\* time.Now() at the start of a request: any time from the last reading on;
\* a request is served within one tick of the clock
Clock == now..MaxTime

\* no case in progress
NoCase == [stage |-> "none"]

\* no request has been served yet
NoRequestYet ==
    /\ now = 0
    /\ nextId = 1
    /\ jar = {}
    /\ pc = "idle"
    /\ cookie = NoCookie
    /\ ctxID = NoID
    /\ sctx = NewSession(0)
    /\ hookOnce = FALSE
    /\ hookOK = TRUE
    /\ hookErr = ""
    /\ loadErr = ""
    /\ w = Writer(<<>>, 0, <<>>)
    /\ wret = ""
    /\ calls = <<>>
    /\ hookRuns = 0
    /\ nreq = 0
    /\ nops = 0
    /\ mu = RWMutex
    /\ gor = [g \in Goroutines |-> NotCalling]
    /\ heap = NoMapHeld

Init ==
    /\ m \in ConstructedManagers
    /\ contents = IF m.storageMode = storageModeKV
                  THEN {kvItem(managerHashSessionID(LegacyID), LegacyPayload, MaxTime + 1)}
                  ELSE {}
    /\ NoRequestYet
    /\ tc = NoCase
    /\ ta = NoCase

\* Manager.Wrap up to the call of next.ServeHTTP, for a request whose
\* session cookie is one of cookieSet
WrapEnter(cookieSet, limit) ==
    /\ pc \in {"idle", "done"}
    /\ nreq < limit
    /\ \E c \in cookieSet, up \in UpstreamHeaders, getFault \in BOOLEAN, clock \in Clock :
          LET Attached(ld) ==
                  /\ sctx' = ld.sctx
                  /\ contents' = ld.contents
                  /\ calls' = ld.calls
                  /\ loadErr' = ld.loadErr
          IN /\ (getFault => m.storageMode = storageModeKV /\ c # NoCookie)
             /\ now' = clock
             /\ cookie' = c
             /\ w' = Writer(up, 0, <<>>)
             /\ Attached(WrapLoad(m, contents, c, clock, getFault))
    /\ pc' = "handler"
    /\ ctxID' = NoID
    /\ hookOnce' = FALSE
    /\ hookOK' = TRUE
    /\ hookErr' = ""
    /\ wret' = ""
    /\ hookRuns' = 0
    /\ nreq' = nreq + 1
    /\ UNCHANGED <<m, nextId, jar, nops, tc, ta, mu, gor, heap>>

\* a call on the Session handle from the handler
HandleCall(next) ==
    /\ pc = "handler"
    /\ nops < MaxOps
    /\ sctx' = next
    /\ nops' = nops + 1
    /\ UNCHANGED <<m, contents, now, nextId, jar, pc, cookie, ctxID, hookOnce, hookOK,
                   hookErr, loadErr, w, wret, calls, hookRuns, nreq, tc, ta, mu, gor, heap>>

DoSet == \E k \in Keys : \E v \in ValsOf(k) : HandleCall(SessionSet(sctx, k, v))
DoSetAll == \E d \in SetAllInputs : HandleCall(SessionSetAll(sctx, d))
DoDelete == HandleCall(SessionDelete(sctx))
DoReset == HandleCall(SessionReset(sctx))
DoFlashMessage == HandleCall(SessionFlashMessage(sctx))
DoSetFlashError == \E msg \in FlashInputs : HandleCall(SessionSetFlashError(sctx, msg))
DoSetFlashMessage == \E msg \in FlashInputs : HandleCall(SessionSetFlashMessage(sctx, msg))

\* what hookOnce.Do(func() { write = h.hook(h.ResponseWriter) }) works on
HookState ==
    [sctx |-> sctx, contents |-> contents, w |-> w, ctxID |-> ctxID, nextId |-> nextId,
     calls |-> calls, hookOnce |-> hookOnce, hookOK |-> hookOK, hookErr |-> hookErr,
     hookRuns |-> hookRuns, write |-> TRUE]

\* the closure runs the hook
RunHook(s, delFault, setFault) ==
    LET Ran(r) ==
            [sctx |-> r.sctx, contents |-> r.e.contents,
             w |-> Writer(r.e.header, r.e.status, r.e.body),
             ctxID |-> r.e.ctxID, nextId |-> r.e.nextId, calls |-> r.e.calls,
             hookOnce |-> TRUE, hookOK |-> r.ok, hookErr |-> r.err,
             hookRuns |-> s.hookRuns + 1, write |-> r.ok]
    IN Ran(saveHook(m, cookie, s.sctx,
                    Effects(s.contents, s.w.header, s.w.status, s.w.body, s.ctxID, s.nextId, s.calls),
                    now, delFault, setFault))

OnceDoEveryTime(s, delFault, setFault) == RunHook(s, delFault, setFault)

\* the closure runs again as long as no run has called the KV
OnceDoUntilStored(s, delFault, setFault) ==
    IF s.hookOnce /\ Len(s.calls) > 0 THEN s ELSE RunHook(s, delFault, setFault)

\* sync.Once: the closure runs for the first caller only
OnceDo(s, delFault, setFault) ==
    IF s.hookOnce THEN s ELSE RunHook(s, delFault, setFault)

Commit(s) ==
    /\ sctx' = s.sctx
    /\ contents' = s.contents
    /\ w' = s.w
    /\ ctxID' = s.ctxID
    /\ nextId' = s.nextId
    /\ calls' = s.calls
    /\ hookOnce' = s.hookOnce
    /\ hookOK' = s.hookOK
    /\ hookErr' = s.hookErr
    /\ hookRuns' = s.hookRuns

\* a fault is an input only where the backend is asked
Faults(delFault, setFault) ==
    /\ (delFault \/ setFault) => m.storageMode = storageModeKV /\ ~hookOnce
    /\ delFault => (sctx.delete \/ sctx.reset)
    /\ setFault => ~delFault

UnderlyingWrite(wr, chunk) ==
    [wr EXCEPT !.status = IF @ = 0 THEN StatusOK ELSE @, !.body = Append(@, chunk)]

UnderlyingWriteHeader(wr, code) ==
    [wr EXCEPT !.status = IF @ = 0 THEN code ELSE @]

HandlerBytes == "hello"

\* chunks of the handler that reached the underlying writer
Passed(wr) == Cardinality({i \in 1..Len(wr.body) : wr.body[i] = HandlerBytes})

HandlerStatus == 201

\* hookRW.Write, from any goroutine of the handler
hookRWWrite ==
    /\ pc = "handler"
    /\ Passed(w) < MaxWrites
    /\ \E delFault \in BOOLEAN, setFault \in BOOLEAN :
          /\ Faults(delFault, setFault)
          /\ LET Written(s) ==
                     IF ~s.write
                     THEN Commit(s) /\ wret' = "interrupted"
                     ELSE Commit([s EXCEPT !.w = UnderlyingWrite(@, HandlerBytes)]) /\ wret' = "ok"
             IN Written(OnceDo(HookState, delFault, setFault))
    /\ UNCHANGED <<m, now, jar, pc, cookie, loadErr, nreq, nops, tc, ta, mu, gor, heap>>

\* hookRW.WriteHeader, from any goroutine of the handler
hookRWWriteHeader ==
    /\ pc = "handler"
    /\ \E delFault \in BOOLEAN, setFault \in BOOLEAN :
          /\ Faults(delFault, setFault)
          /\ LET Written(s) ==
                     IF ~s.write
                     THEN Commit(s)
                     ELSE Commit([s EXCEPT !.w = UnderlyingWriteHeader(@, HandlerStatus)])
             IN Written(OnceDo(HookState, delFault, setFault))
    /\ UNCHANGED <<m, now, jar, pc, cookie, loadErr, wret, nreq, nops, tc, ta, mu, gor, heap>>

\* cookies of the response that the client keeps
Issued(header) ==
    {header[i].value : i \in {j \in 1..Len(header) :
        header[j].name = m.cookieName /\ header[j].maxAge >= 0 /\ header[j].value # NoDotString}}

\* next.ServeHTTP returns; Wrap fires the hook if no write did
WrapReturn ==
    /\ pc = "handler"
    /\ \E delFault \in BOOLEAN, setFault \in BOOLEAN :
          /\ Faults(delFault, setFault)
          /\ Commit(OnceDo(HookState, delFault, setFault))
    /\ pc' = "done"
    /\ jar' = jar \cup Issued(w'.header)
    /\ UNCHANGED <<m, now, cookie, loadErr, wret, nreq, nops, tc, ta, mu, gor, heap>>

\* requests whose session cookie the manager issued, or that carry none
WrapEnterJar == WrapEnter(JarCookies, MaxReq)

Next ==
    \/ WrapEnterJar
    \/ DoSet
    \/ DoSetAll
    \/ DoDelete
    \/ DoReset
    \/ DoFlashMessage
    \/ DoSetFlashError
    \/ DoSetFlashMessage
    \/ hookRWWrite
    \/ hookRWWriteHeader
    \/ WrapReturn

Spec == Init /\ [][Next]_vars

\* ------------------------------------------------------------ load failures
\* requests whose session cookie no manager of this configuration issued
WrapEnterForged == WrapEnter(ForgedCookies(m), MaxReq)

\* Requests with every kind of session cookie, issued or not, whose handlers
\* store values, delete and write.
NextLoad ==
    \/ WrapEnterJar
    \/ WrapEnterForged
    \/ DoSet
    \/ DoDelete
    \/ hookRWWrite
    \/ WrapReturn

SpecLoad == Init /\ [][NextLoad]_vars

\* ------------------------------------------------------------ cookie codec
\* saveToCookie and loadFromCookie called directly, as the codec's tests do.
CookieManagers ==
    {x \in Managers : x.storageMode = storageModeCookie /\ ValidOpts(x.MaxLifetime, x.IdleTimeout)}

\* payloads: n bytes that, behind the expiry header, zlib turns into z bytes.
\* 504 and 505 sit on the compression threshold, 3021 and 3022 on the size
\* ceiling of an uncompressed cookie; the random ones grow under zlib.
Payloads ==
    {Raw("empty", 0, 16), Raw("short", 5, 21), Raw("text504", 504, 60),
     Raw("text505", 505, 60), Raw("text3022", 3022, 90), Raw("random3021", 3021, 3040),
     Raw("random5000", 5000, 5019)}

\* expiry times handed to saveToCookie, in ticks
Expiries == 0..(MaxTime + TicksPerSec)

\* the value of the last Set-Cookie line of the session cookie
SessionCookieOf(header, name) ==
    LET lines == SelectSeq(header, LAMBDA c : c.name = name)
    IN IF lines = <<>> THEN NoCookie ELSE lines[Len(lines)].value

InitCodec ==
    /\ m \in CookieManagers
    /\ contents = {}
    /\ NoRequestYet
    /\ tc = NoCase
    /\ ta = NoCase

\* saveToCookie(w, r, expiresAt, data)
CodecSave ==
    /\ tc.stage = "none"
    /\ \E data \in Payloads, expiresAt \in Expiries, up \in UpstreamHeaders :
          LET Saved(r) ==
                  /\ w' = Writer(r.header, 0, <<>>)
                  /\ tc' = [stage |-> "saved", data |-> data, expiresAt |-> expiresAt,
                            before |-> up, err |-> r.err, out |-> LoadErr("")]
          IN Saved(saveToCookie(m, up, expiresAt, data))
    /\ UNCHANGED <<m, contents, now, nextId, jar, pc, cookie, ctxID, sctx, hookOnce, hookOK,
                   hookErr, loadErr, wret, calls, hookRuns, nreq, nops, ta, mu, gor, heap>>

\* time passes between the response and the next request
CodecTick ==
    /\ tc.stage = "saved"
    /\ now < MaxTime
    /\ now' = now + 1
    /\ UNCHANGED <<m, contents, nextId, jar, pc, cookie, ctxID, sctx, hookOnce, hookOK,
                   hookErr, loadErr, w, wret, calls, hookRuns, nreq, nops, tc, ta, mu, gor, heap>>

\* loadFromCookie(cookieValue) on the value the response carried
CodecLoad ==
    /\ tc.stage = "saved"
    /\ tc.err = ""
    /\ tc' = [tc EXCEPT !.stage = "loaded",
                        !.out = loadFromCookie(m, SessionCookieOf(w.header, m.cookieName), now)]
    /\ UNCHANGED <<m, contents, now, nextId, jar, pc, cookie, ctxID, sctx, hookOnce, hookOK,
                   hookErr, loadErr, w, wret, calls, hookRuns, nreq, nops, ta, mu, gor, heap>>

\* a manager built with the same AEAD and options under another cookie name
Renamed(mgr) == [mgr EXCEPT !.cookieName = OtherCookieName]

\* the value is sent back under the other manager's cookie name: the load of
\* that manager and the session its Wrap attaches to the request
CodecReplay ==
    /\ tc.stage = "saved"
    /\ tc.err = ""
    /\ tc' = [tc EXCEPT !.stage = "replayed",
                        !.out = loadFromCookie(Renamed(m), SessionCookieOf(w.header, m.cookieName), now)]
    /\ sctx' = WrapLoad(Renamed(m), contents, SessionCookieOf(w.header, m.cookieName), now, FALSE).sctx
    /\ UNCHANGED <<m, contents, now, nextId, jar, pc, cookie, ctxID, hookOnce, hookOK,
                   hookErr, loadErr, w, wret, calls, hookRuns, nreq, nops, ta, mu, gor, heap>>

NextCodec ==
    \/ CodecSave
    \/ CodecTick
    \/ CodecLoad
    \/ CodecReplay

SpecCodec == InitCodec /\ [][NextCodec]_vars

\* -------------------------------------------------------------------- AEAD
\* key lists of at most two additional decryption keys
KeyLists ==
    {<<>>} \cup {<<k>> : k \in AeadKeys}
           \cup {<<k1, k2>> : k1 \in AeadKeys, k2 \in AeadKeys}

AEADs == {xchaPolyAEAD(ek, dks) : ek \in AeadKeys, dks \in KeyLists}

Plaintexts == {Raw("empty", 0, 0), Raw("short", 5, 5)}

AssociatedData == {"__Host-session", "other"}

\* x.Encrypt(plaintext, associatedData)
AeadEncrypt ==
    /\ ta.stage = "none"
    /\ \E x \in AEADs, plaintext \in Plaintexts, ad \in AssociatedData :
          ta' = [stage |-> "sealed", key |-> x.encryptionKey, plaintext |-> plaintext,
                 ad |-> ad, genuine |-> TRUE, ciphertext |-> Encrypt(x, plaintext, ad).ct,
                 with |-> x, ad2 |-> ad, out |-> [err |-> "", pt |-> NilBytes]]
    /\ UNCHANGED <<m, contents, now, nextId, jar, pc, cookie, ctxID, sctx, hookOnce, hookOK,
                   hookErr, loadErr, w, wret, calls, hookRuns, nreq, nops, tc, mu, gor, heap>>

\* bytes change on the way: a bit flips, or all but a few bytes are lost
AeadTamper ==
    /\ ta.stage = "sealed"
    /\ ta.genuine
    /\ \E damaged \in {[ta.ciphertext EXCEPT !.intact = FALSE], ShortBytes} :
          ta' = [ta EXCEPT !.genuine = FALSE, !.ciphertext = damaged]
    /\ UNCHANGED <<m, contents, now, nextId, jar, pc, cookie, ctxID, sctx, hookOnce, hookOK,
                   hookErr, loadErr, w, wret, calls, hookRuns, nreq, nops, tc, mu, gor, heap>>

\* y.Decrypt(ciphertext, associatedData) in any configuration
AeadDecrypt ==
    /\ ta.stage = "sealed"
    /\ \E y \in AEADs, ad2 \in AssociatedData :
          ta' = [ta EXCEPT !.stage = "opened", !.with = y, !.ad2 = ad2,
                           !.out = Decrypt(y, ta.ciphertext, ad2)]
    /\ UNCHANGED <<m, contents, now, nextId, jar, pc, cookie, ctxID, sctx, hookOnce, hookOK,
                   hookErr, loadErr, w, wret, calls, hookRuns, nreq, nops, tc, mu, gor, heap>>

NextAEAD ==
    \/ AeadEncrypt
    \/ AeadTamper
    \/ AeadDecrypt

SpecAEAD == Init /\ [][NextAEAD]_vars

\* --------------------------------------------------------- calculateExpiry
\* calculateExpiry called directly, as its table test does: any options, any
\* creation time, an update time that is unset or any time from creation on
Durations == 0..MaxDur

ExpiryCalc ==
    /\ tc.stage = "none"
    /\ \E ml \in Durations, it \in Durations, created \in 0..MaxTime :
          \E updated \in {ZeroTime} \cup (created..MaxTime) :
             tc' = [stage |-> "expiry", MaxLifetime |-> ml, IdleTimeout |-> it,
                    CreatedAt |-> created, UpdatedAt |-> updated,
                    out |-> calculateExpiry(
                               Manager(m.storageMode, m.aead, m.compressionDisabled,
                                       m.cookieName, ml, it),
                               persistedSession(EmptyMap, created, updated, flashLevelNone, ""))]
    /\ UNCHANGED <<m, contents, now, nextId, jar, pc, cookie, ctxID, sctx, hookOnce, hookOK,
                   hookErr, loadErr, w, wret, calls, hookRuns, nreq, nops, ta, mu, gor, heap>>

NextExpiry == ExpiryCalc

SpecExpiry == Init /\ [][NextExpiry]_vars

\* ------------------------------------------------- goroutines of a handler
\* The handler of one request shares its Session among NGor goroutines, each
\* calling Get, GetAll, Set, SetAll, Delete and Reset in any order.  A call
\* is: enter the method, take sessdataMu (RLock, or Lock in its two steps),
\* run the body, release by the deferred unlock.
Readers == {"Get", "GetAll"}
Mutators == {"Set", "SetAll", "Delete", "Reset"}

\* the handle after the body of a mutator
MutatorBody(s, op) ==
    CASE op = "Set" -> SessionSet(s, "a", "1")
      [] op = "SetAll" -> SessionSetAll(s, EmptyMap)
      [] op = "Delete" -> SessionDelete(s)
      [] OTHER -> SessionReset(s)

WrapEnterOnce == WrapEnter({NoCookie}, 1)

\* a goroutine enters one of the methods
SessionCall ==
    /\ pc = "handler"
    /\ \E g \in Goroutines, op \in Readers \cup Mutators :
          /\ gor[g].at = "idle"
          /\ gor' = [gor EXCEPT ![g] = [op |-> op,
                                        at |-> IF op \in Readers THEN "RLock" ELSE "Lock"]]
    /\ UNCHANGED <<m, contents, now, nextId, jar, pc, cookie, ctxID, sctx, hookOnce, hookOK,
                   hookErr, loadErr, w, wret, calls, hookRuns, nreq, nops, tc, ta, mu, heap>>

RLockNeverBlocks(rw) == TRUE

\* RLock goes through unless a writer holds rw.w (it holds or has announced)
RLockPasses(rw) == ~rw.w

\* RWMutex.RLock
RWMutexRLock ==
    /\ \E g \in Goroutines :
          /\ gor[g].at = "RLock"
          /\ RLockPasses(mu)
          /\ gor' = [gor EXCEPT ![g].at = "reading"]
    /\ mu' = [mu EXCEPT !.readers = @ + 1]
    /\ UNCHANGED <<m, contents, now, nextId, jar, pc, cookie, ctxID, sctx, hookOnce, hookOK,
                   hookErr, loadErr, w, wret, calls, hookRuns, nreq, nops, tc, ta, heap>>

\* the body of Get or GetAll, then the deferred RUnlock
ReadReturn ==
    /\ \E g \in Goroutines :
          /\ gor[g].at = "reading"
          /\ gor' = [gor EXCEPT ![g] = NotCalling]
    /\ mu' = [mu EXCEPT !.readers = @ - 1]
    /\ UNCHANGED <<m, contents, now, nextId, jar, pc, cookie, ctxID, sctx, hookOnce, hookOK,
                   hookErr, loadErr, w, wret, calls, hookRuns, nreq, nops, tc, ta, heap>>

\* RWMutex.Lock, first half: take rw.w and announce the writer to readers
RWMutexLockPending ==
    /\ \E g \in Goroutines :
          /\ gor[g].at = "Lock"
          /\ ~mu.w
          /\ gor' = [gor EXCEPT ![g].at = "pending"]
    /\ mu' = [mu EXCEPT !.w = TRUE]
    /\ UNCHANGED <<m, contents, now, nextId, jar, pc, cookie, ctxID, sctx, hookOnce, hookOK,
                   hookErr, loadErr, w, wret, calls, hookRuns, nreq, nops, tc, ta, heap>>

\* RWMutex.Lock, second half: wait until the active readers have left
RWMutexLockAcquire ==
    /\ \E g \in Goroutines :
          /\ gor[g].at = "pending"
          /\ mu.readers = 0
          /\ gor' = [gor EXCEPT ![g].at = "writing"]
    /\ mu' = [mu EXCEPT !.writer = TRUE]
    /\ UNCHANGED <<m, contents, now, nextId, jar, pc, cookie, ctxID, sctx, hookOnce, hookOK,
                   hookErr, loadErr, w, wret, calls, hookRuns, nreq, nops, tc, ta, heap>>

\* the body of Set, SetAll, Delete or Reset, then the deferred Unlock
WriteReturn ==
    /\ \E g \in Goroutines :
          /\ gor[g].at = "writing"
          /\ sctx' = MutatorBody(sctx, gor[g].op)
          /\ gor' = [gor EXCEPT ![g] = NotCalling]
    /\ mu' = [mu EXCEPT !.writer = FALSE, !.w = FALSE]
    /\ UNCHANGED <<m, contents, now, nextId, jar, pc, cookie, ctxID, hookOnce, hookOK,
                   hookErr, loadErr, w, wret, calls, hookRuns, nreq, nops, tc, ta, heap>>

\* the handler returns once its goroutines have
WrapReturnJoined ==
    /\ \A g \in Goroutines : gor[g].at = "idle"
    /\ WrapReturn

NextLock ==
    \/ WrapEnterOnce
    \/ SessionCall
    \/ RWMutexRLock
    \/ ReadReturn
    \/ RWMutexLockPending
    \/ RWMutexLockAcquire
    \/ WriteReturn
    \/ WrapReturnJoined

SpecLock == Init /\ [][NextLock]_vars

\* ------------------------------------------------- writes from goroutines
\* The goroutines of one handler call Write and WriteHeader of the hookRW at
\* the same time.  A call is: enter the method, go through hookOnce.Do
\* (running the hook, or waiting for the goroutine that runs it), then write
\* to the underlying writer if the local variable write is still true.
OncePassesWhileRunning(done, running) == done \/ running

\* sync.Once.Do returns without calling f only when a call of f has returned
OncePasses(done, running) == done

\* a goroutine is inside the closure passed to hookOnce.Do
HookRunning == \E g \in Goroutines : gor[g].at = "hook"

\* a goroutine calls hw.Write(b) or hw.WriteHeader(code)
GoWrite ==
    /\ pc = "handler"
    /\ nops < MaxGoCalls
    /\ \E g \in Goroutines, op \in {"Write", "WriteHeader"} :
          /\ gor[g].at = "idle"
          /\ gor' = [gor EXCEPT ![g] = [op |-> op, at |-> "Do", write |-> TRUE]]
    /\ nops' = nops + 1
    /\ UNCHANGED <<m, contents, now, nextId, jar, pc, cookie, ctxID, sctx, hookOnce, hookOK,
                   hookErr, loadErr, w, wret, calls, hookRuns, nreq, tc, ta, mu, heap>>

\* hookOnce.Do: pass, or start running the closure, or wait while another
\* goroutine runs it
OnceEnter ==
    /\ \E g \in Goroutines :
          /\ gor[g].at = "Do"
          /\ OncePasses(hookOnce, HookRunning) \/ ~HookRunning
          /\ gor' = [gor EXCEPT ![g].at = IF OncePasses(hookOnce, HookRunning)
                                          THEN "after" ELSE "hook"]
    /\ UNCHANGED <<m, contents, now, nextId, jar, pc, cookie, ctxID, sctx, hookOnce, hookOK,
                   hookErr, loadErr, w, wret, calls, hookRuns, nreq, nops, tc, ta, mu, heap>>

\* the closure returns: the hook has made its KV calls and set its headers,
\* write holds what it returned, and the Once is done
HookFinish ==
    /\ \E g \in Goroutines, delFault \in BOOLEAN, setFault \in BOOLEAN :
          /\ gor[g].at = "hook"
          /\ Faults(delFault, setFault)
          /\ LET Finished(s) ==
                     /\ Commit(s)
                     /\ gor' = [gor EXCEPT ![g].at = "after", ![g].write = s.write]
             IN Finished(RunHook(HookState, delFault, setFault))
    /\ UNCHANGED <<m, now, jar, pc, cookie, loadErr, wret, nreq, nops, tc, ta, mu, heap>>

\* the rest of Write or WriteHeader
GoWriteReturn ==
    /\ \E g \in Goroutines :
          /\ gor[g].at = "after"
          /\ gor' = [gor EXCEPT ![g] = NotCalling]
          /\ w' = IF ~gor[g].write THEN w
                  ELSE IF gor[g].op = "Write" THEN UnderlyingWrite(w, HandlerBytes)
                  ELSE UnderlyingWriteHeader(w, HandlerStatus)
          /\ wret' = IF gor[g].op # "Write" THEN wret
                     ELSE IF gor[g].write THEN "ok" ELSE "interrupted"
    /\ UNCHANGED <<m, contents, now, nextId, jar, pc, cookie, ctxID, sctx, hookOnce, hookOK,
                   hookErr, loadErr, calls, hookRuns, nreq, nops, tc, ta, mu, heap>>

\* handle calls made while no goroutine is inside the hook
SetOutsideHook == ~HookRunning /\ DoSet
ResetOutsideHook == ~HookRunning /\ DoReset

NextWrite ==
    \/ WrapEnterOnce
    \/ SetOutsideHook
    \/ ResetOutsideHook
    \/ GoWrite
    \/ OnceEnter
    \/ HookFinish
    \/ GoWriteReturn
    \/ WrapReturnJoined

SpecWrite == Init /\ [][NextWrite]_vars

\* --------------------------------------------------- maps the handler holds
\* One request whose handler keeps the map GetAll returned, changes it, and
\* may pass it to SetAll.
MapCall(next, nextHeap) ==
    /\ pc = "handler"
    /\ nops < MaxMapOps
    /\ sctx' = next
    /\ heap' = nextHeap
    /\ nops' = nops + 1
    /\ UNCHANGED <<m, contents, now, nextId, jar, pc, cookie, ctxID, hookOnce, hookOK,
                   hookErr, loadErr, w, wret, calls, hookRuns, nreq, tc, ta, mu, gor>>

\* the session's map and the held map are one object
SameMap == heap.held = heap.session

\* d := s.GetAll()
MapGetAll ==
    MapCall(sctx, [heap EXCEPT !.held = mapsClone(heap.session, heap.next),
                               !.heldData = SessionGetAll(sctx),
                               !.next = @ + 1,
                               !.handedBack = FALSE])

\* s.Set(k, v): written into the map the session refers to
MapSet ==
    \E k \in Keys :
       MapCall(SessionSet(sctx, k, "1"),
               [heap EXCEPT !.heldData = IF SameMap THEN MapPut(sctx.sessdata.Data, k, "1") ELSE @])

\* s.SetAll(d): the session now refers to the caller's map
MapSetAllHeld ==
    /\ heap.held # 0
    /\ MapCall(SessionSetAll(sctx, heap.heldData),
               [heap EXCEPT !.session = heap.held, !.handedBack = TRUE])

\* s.Delete(): the session gets a map of its own
MapDelete ==
    MapCall(SessionDelete(sctx), [heap EXCEPT !.session = heap.next, !.next = @ + 1])

\* d[k] = v or delete(d, k) in the handler
MapMutateHeld ==
    /\ heap.held # 0
    /\ \E changed \in {MapPut(heap.heldData, k, "1") : k \in Keys}
                       \cup {MapPut(heap.heldData, "a", "big")}
                       \cup {MapRemove(heap.heldData, k) : k \in Keys} :
          /\ changed # heap.heldData
          /\ MapCall(IF SameMap THEN [sctx EXCEPT !.sessdata.Data = changed] ELSE sctx,
                     [heap EXCEPT !.heldData = changed])

NextMaps ==
    \/ WrapEnterOnce
    \/ MapGetAll
    \/ MapSet
    \/ MapSetAllHeld
    \/ MapDelete
    \/ MapMutateHeld
    \/ WrapReturn

SpecMaps == Init /\ [][NextMaps]_vars

\* -------------------------------------------------------------- properties
Count(op) == Cardinality({i \in 1..Len(calls) : calls[i].op = op})

ResetCompleted ==
    /\ pc = "done"
    /\ m.storageMode = storageModeKV
    /\ cookie # NoCookie
    /\ sctx.reset /\ ~sctx.save /\ ~sctx.delete
    /\ hookOK
    /\ Count("Delete") = 1
    /\ Count("Set") = 1

\* the row of an identifier is in the KV and has not expired at time t
RowAlive(id, t) ==
    /\ kvHas(contents, managerHashSessionID(id))
    /\ t <= kvAt(contents, managerHashSessionID(id)).expiresAt

\* C2: KV mode, sequential requests: once a request that carried identifier I
\* has called Reset before its response started and completed, the next request carrying I finds no
\* session, the identifier I' issued differs from I, and the next request
\* carrying I' (while its row has not expired and the backend answers) reads
\* every key and value the session held.
C2_ResetChangesIdentity ==
    [][(ResetCompleted /\ pc' = "handler")
          => /\ ctxID # cookie
             /\ ctxID \in jar
             /\ cookie' = cookie
                   => /\ sctx'.sessdata.Data = EmptyMap
                      /\ sctx'.datab = NilBytes
                      /\ \A k \in Keys : SessionGet(sctx', k) = NoValue
             /\ (cookie' = ctxID /\ loadErr' = "" /\ RowAlive(ctxID, now'))
                   => /\ sctx'.sessdata.Data = sctx.sessdata.Data
                      /\ \A k \in Keys : SessionGet(sctx', k) = SessionGet(sctx, k)]_vars

\* the third request carries the identifier issued by the reset of a session
\* that held a value, and reads that value, while the old row is gone
C2_Witness ==
    /\ pc = "handler"
    /\ m.storageMode = storageModeKV
    /\ nreq = 3
    /\ cookie = SID(3)
    /\ SID(1) \in jar
    /\ ~kvHas(contents, managerHashSessionID(SID(1)))
    /\ SessionGet(sctx, "a") = "1"
    /\ Count("Get") = 1

\* C3: whatever handle calls a request makes, the flags save and delete are
\* never both true, and the hook of a request whose reset flag is false never
\* runs both the delete step and the store step.
C3_SaveDeleteExclusive ==
    /\ ~(sctx.save /\ sctx.delete)
    /\ (hookOnce /\ ~sctx.reset /\ m.storageMode = storageModeKV)
          => ~(Count("Delete") = 1 /\ Count("Set") = 1)

\* C4: each mutator leaves the flags as the state machine says.  Set and
\* SetAll: save, not delete.  Delete: delete, neither save nor reset, and the
\* data emptied, so that Get and GetAll see no keys for as long as the delete
\* flag stands.  Reset: reset, neither save nor delete, the cached raw bytes
\* dropped, the visible data as before.  A request starts with all three
\* flags false.
C4_MutatorFlags ==
    [][/\ (DoSet \/ DoSetAll) => (sctx'.save /\ ~sctx'.delete /\ sctx'.reset = sctx.reset)
       /\ DoDelete => /\ sctx'.delete /\ ~sctx'.save /\ ~sctx'.reset
                      /\ SessionGetAll(sctx') = EmptyMap
                      /\ \A k \in Keys : SessionGet(sctx', k) = NoValue
       /\ DoReset => /\ sctx'.reset /\ ~sctx'.save /\ ~sctx'.delete
                     /\ sctx'.datab = NilBytes
                     /\ SessionGetAll(sctx') = SessionGetAll(sctx)
       /\ (pc # "handler" /\ pc' = "handler")
             => (~sctx'.save /\ ~sctx'.delete /\ ~sctx'.reset)
       /\ sctx'.delete => SessionGetAll(sctx') = EmptyMap]_vars

\* Reset on a session that was loaded with its raw bytes cached: the bytes are
\* gone, the data is still visible
C4_Witness ==
    /\ pc = "handler"
    /\ ~hookOnce
    /\ cookie \in jar
    /\ m.IdleTimeout # 0
    /\ sctx.reset /\ ~sctx.save /\ ~sctx.delete
    /\ sctx.datab = NilBytes
    /\ SessionGet(sctx, "a") = "1"

\* the ways a load fails
LoadFailures ==
    {"cookie does not contain two . separated parts", "decoding cookie string",
     "cookie has bad magic prefix", "decompressing cookie", "decrypting cookie",
     "decrypted data too short", "cookie expired", "getting from KV",
     "decoding session data"}

\* C5: when loading the session fails, for whatever reason, Wrap calls the
\* handler with a fresh session (no data, created now, no cached raw bytes, no
\* flag set) and has written nothing to the response; the failure alone never
\* produces the error response.
C5_LoadFailureStartsFresh ==
    /\ [][(pc # "handler" /\ pc' = "handler" /\ loadErr' # "")
             => /\ sctx' = NewSession(now')
                /\ SessionGetAll(sctx') = EmptyMap
                /\ sctx'.sessdata.CreatedAt = now'
                /\ sctx'.datab = NilBytes
                /\ ~sctx'.save /\ ~sctx'.delete /\ ~sctx'.reset
                /\ w'.status = 0 /\ w'.body = <<>>
                /\ w'.header \in UpstreamHeaders]_vars
    /\ [](loadErr \in LoadFailures \cup {""})
    /\ []((loadErr # "" /\ hookErr = "")
             => (w.status # StatusInternalServerError
                 /\ \A i \in 1..Len(w.body) : w.body[i] # InternalError))

\* a request whose cookie had expired stored a value and answered normally
C5_Witness ==
    /\ pc = "done"
    /\ loadErr = "cookie expired"
    /\ cookie \in jar
    /\ hookOK
    /\ w.status = StatusOK
    /\ Passed(w) = 1
    /\ SessionGet(sctx, "a") = "1"

\* C6: when the delete or the store step of the hook fails (cookie over 4096
\* characters, KV Set or Delete fault, encode fault), the hook writes status
\* 500 and "Internal Error" to the underlying writer and returns false, and
\* the Write that triggered it returns an error and passes no handler bytes.
C6_HookErrorIs500 ==
    /\ [][(~hookOnce /\ hookOnce' /\ hookErr' # "")
             => /\ ~hookOK'
                /\ w'.status = StatusInternalServerError
                /\ w'.body = Append(w.body, InternalError)
                /\ hookRWWrite => (wret' = "interrupted" /\ Passed(w') = Passed(w))]_vars
    /\ [](hookOK <=> hookErr = "")
    /\ []((hookOnce /\ ~hookOK)
             => (w.status = StatusInternalServerError
                 /\ \E i \in 1..Len(w.body) : w.body[i] = InternalError))

\* a Write met a session too large for a cookie
C6_Witness ==
    /\ pc = "handler"
    /\ wret = "interrupted"
    /\ hookErr = "cookie size is greater than max"
    /\ ~hookOK
    /\ w.status = StatusInternalServerError
    /\ w.body = <<InternalError>>

\* the cookie value the response carried
SavedValue == SessionCookieOf(w.header, m.cookieName)

\* C7: cookie round trip, for the cookies saveToCookie does not compress: with
\* the expiry later than the time of the load, loadFromCookie returns exactly
\* the payload; with the expiry earlier, it returns the expired error.
C7_RoundTripUncompressed ==
    (tc.stage = "loaded" /\ SavedValue.magic = managerCookieMagic)
       => /\ tc.expiresAt > now => tc.out = [err |-> "", data |-> tc.data]
          /\ tc.expiresAt < now => tc.out.err = "cookie expired"

\* C8: with compression enabled the magic is EU1 when 8 + len(payload) is at
\* most 512 and EC1 when it is more, with compression disabled always EU1,
\* and in both cases loading the value, before the stored expiry has passed,
\* returns the payload.
C8_CompressionTransparent ==
    /\ (tc.stage \in {"saved", "loaded"} /\ tc.err = "")
          => SavedValue.magic =
                IF ~m.compressionDisabled /\ ExpiryHeaderLen + tc.data.len > managerCompressThreshold
                THEN managerCompressedCookieMagic
                ELSE managerCookieMagic
    /\ (tc.stage = "loaded" /\ FromUnix(UnixSec(tc.expiresAt)) >= now)
          => tc.out = [err |-> "", data |-> tc.data]

\* C9: when the final cookie value is longer than 4096 characters saveToCookie
\* returns the size error and leaves the response headers as they were; no
\* session cookie longer than 4096 characters is ever set.
C9_SizeCeiling ==
    tc.stage \in {"saved", "loaded"}
       => /\ StrLen(cookieValueOf(m, tc.expiresAt, tc.data)) > managerMaxCookieSize
                => /\ tc.err = "cookie size is greater than max"
                   /\ w.header = tc.before
          /\ StrLen(cookieValueOf(m, tc.expiresAt, tc.data)) <= managerMaxCookieSize
                => /\ tc.err = ""
                   /\ SavedValue = cookieValueOf(m, tc.expiresAt, tc.data)
          /\ \A i \in 1..Len(w.header) :
                (w.header[i].name = m.cookieName /\ w.header[i].value.t = "cv")
                   => StrLen(w.header[i].value) <= managerMaxCookieSize

\* a payload one byte over the ceiling was refused and the Set-Cookie lines
\* that were already in the response are still there
C9_Witness ==
    /\ tc.stage = "saved"
    /\ tc.data.len = 3022
    /\ m.compressionDisabled
    /\ tc.err = "cookie size is greater than max"
    /\ Len(tc.before) = 2
    /\ w.header = tc.before

\* the keys a configuration decrypts with
KeysOf(x) == {x.encryptionKey} \cup {x.decryptionKeys[i] : i \in 1..Len(x.decryptionKeys)}

\* C10: Decrypt succeeds exactly on a ciphertext that Encrypt produced, given
\* the same associated data, in a configuration whose primary or additional
\* keys include the key it was encrypted under, and then returns the
\* plaintext.
C10_DecryptIffProduced ==
    ta.stage = "opened"
       => /\ ta.out.err = "" <=> (ta.genuine /\ ta.ad2 = ta.ad /\ ta.key \in KeysOf(ta.with))
          /\ ta.out.err = "" => ta.out.pt = ta.plaintext

SessionLines(header) == SelectSeq(header, LAMBDA c : c.name = m.cookieName)

\* C12: when the hook fires with delete set and save and reset unset, and the
\* backend's Delete does not fail, the hook returns true and logs no error,
\* the KV holds no entry under the hash of the identifier the request
\* carried, and the response has exactly one Set-Cookie line for the session
\* cookie name, with an empty value and MaxAge < 0.  The backend's Delete is
\* the only thing that can fail, and it is called only when the request
\* carried an identifier.
C12_DeleteIsClean ==
    [][(~hookOnce /\ hookOnce' /\ sctx.delete /\ ~sctx.save /\ ~sctx.reset)
          => /\ hookErr' \in {"", "deleting from KV"}
             /\ hookErr' = "deleting from KV"
                   => (m.storageMode = storageModeKV /\ cookie # NoCookie)
             /\ hookErr' = ""
                   => /\ hookOK'
                      /\ (m.storageMode = storageModeKV /\ cookie # NoCookie)
                            => ~kvHas(contents', managerHashSessionID(cookie))
                      /\ SessionLines(w'.header) = <<SetCookieLine(m.cookieName, EmptyString, 0 - 1)>>
                      /\ Count("Set")' = 0]_vars

\* Delete called twice in a request whose identifier never had a row, behind
\* a component that had set a cookie of the same name
C12_Witness ==
    /\ pc = "done"
    /\ m.storageMode = storageModeKV
    /\ nreq = 1 /\ nops = 2
    /\ cookie = NoDotString
    /\ sctx.delete /\ ~sctx.save /\ ~sctx.reset
    /\ hookOK
    /\ calls = <<KVCall("Get", managerHashSessionID(NoDotString)),
                 KVCall("Delete", managerHashSessionID(NoDotString))>>
    /\ w.header = <<SetCookieLine(OtherCookieName, NoDotString, 0),
                    SetCookieLine(m.cookieName, EmptyString, 0 - 1)>>

\* the hook fires on a handle without any flag, with the idle timeout on and
\* the bytes of a loaded session cached
TouchFires ==
    /\ ~hookOnce /\ hookOnce'
    /\ ~sctx.save /\ ~sctx.delete /\ ~sctx.reset
    /\ m.IdleTimeout # 0
    /\ sctx.datab # NilBytes

\* what is under the encryption of a cookie value
DecryptedPayload(value) ==
    Decrypt(m.aead, DecodeString(value.enc).data, m.cookieName).pt

\* C13: touch.  When the hook fires with no flag set, the idle timeout
\* enabled and a session loaded from the request, then, unless the backend's
\* Set fails: in KV mode the one KV call is a Set under the hash of the
\* identifier of the request cookie, the row holds the bytes it held (the
\* bytes that were loaded) with the recomputed expiry, no other row changes,
\* and the session cookie is set to that identifier; in cookie mode the
\* session cookie set decrypts to the loaded bytes behind the new expiry.
C13_TouchKeepsBytes ==
    [][TouchFires
          => /\ cookie # NoCookie
             /\ hookErr' \in {"", "updating KV expiry"}
             /\ hookErr' # "" => m.storageMode = storageModeKV
             /\ (hookErr' = "" /\ m.storageMode = storageModeKV)
                   => /\ calls' = Append(calls, KVCall("Set", managerHashSessionID(cookie)))
                      /\ kvHas(contents, managerHashSessionID(cookie))
                      /\ kvAt(contents, managerHashSessionID(cookie)).data = sctx.datab
                      /\ contents' = (contents \ {kvAt(contents, managerHashSessionID(cookie))})
                                        \cup {kvItem(managerHashSessionID(cookie), sctx.datab,
                                                     calculateExpiry(m, sctx'.sessdata))}
                      /\ SessionLines(w'.header) = <<SetCookieLine(m.cookieName, cookie, 0)>>
                      /\ ctxID' = cookie
             /\ (hookErr' = "" /\ m.storageMode = storageModeCookie)
                   => /\ calls' = calls /\ contents' = contents
                      /\ Len(SessionLines(w'.header)) = 1
                      /\ SessionLines(w'.header)[1].maxAge = 0
                      /\ DecryptedPayload(SessionLines(w'.header)[1].value)
                            = WithExpiry(UnixSec(calculateExpiry(m, sctx'.sessdata)), sctx.datab)
                      /\ DecryptedPayload(cookie).body = sctx.datab]_vars

\* a KV session saved at time 0 and touched at time 1: the row still holds
\* the bytes written at time 0 and now lives until time 1 + IdleTimeout
C13_Witness ==
    /\ pc = "done"
    /\ m.storageMode = storageModeKV
    /\ m.IdleTimeout # 0 /\ m.MaxLifetime = 0
    /\ cookie = SID(1)
    /\ now = 1
    /\ ~sctx.save /\ ~sctx.delete /\ ~sctx.reset
    /\ calls = <<KVCall("Get", managerHashSessionID(SID(1))),
                 KVCall("Set", managerHashSessionID(SID(1)))>>
    /\ kvAt(contents, managerHashSessionID(SID(1))).data = sctx.datab
    /\ sctx.datab.rec.UpdatedAt = 0
    /\ kvAt(contents, managerHashSessionID(SID(1))).expiresAt = 1 + m.IdleTimeout

\* the hook fires on a handle without any flag and has nothing to touch
IdleHookFires ==
    /\ ~hookOnce /\ hookOnce'
    /\ ~sctx.save /\ ~sctx.delete /\ ~sctx.reset
    /\ (m.IdleTimeout = 0 \/ sctx.datab = NilBytes)

\* C14: when the hook fires with save, delete and reset all false and either
\* IdleTimeout is zero or no session was loaded from the request, it makes no
\* call on the KV, leaves the KV as it is, leaves every Set-Cookie line of
\* the response as it is, and returns true.
C14_NoFlagNoIO ==
    [][IdleHookFires
          => /\ calls' = calls
             /\ contents' = contents
             /\ w'.header = w.header
             /\ ctxID' = ctxID /\ nextId' = nextId
             /\ hookOK' /\ hookErr' = ""]_vars

\* a request that only read a stored session, under a manager without idle
\* timeout, behind a component that had set cookies: the one KV call is the
\* Get of the load and the headers are the upstream ones
C14_Witness ==
    /\ pc = "done"
    /\ m.storageMode = storageModeKV
    /\ m.IdleTimeout = 0
    /\ cookie = SID(1)
    /\ SessionGet(sctx, "a") = "1"
    /\ ~sctx.save /\ ~sctx.delete /\ ~sctx.reset
    /\ calls = <<KVCall("Get", managerHashSessionID(SID(1)))>>
    /\ w.header \in UpstreamHeaders /\ Len(w.header) = 2
    /\ hookOK

\* C15: calculateExpiry returns the earlier of createdAt + MaxLifetime and
\* lastActivity + IdleTimeout when both options are non-zero, lastActivity
\* being updatedAt if it is set and createdAt otherwise; with one option
\* non-zero it returns that option's bound.  With MaxLifetime 1, IdleTimeout
\* 2 and no update it returns createdAt + 1.
C15_EarliestBound ==
    tc.stage = "expiry"
       => LET lastActivity == IF tc.UpdatedAt # ZeroTime THEN tc.UpdatedAt ELSE tc.CreatedAt
              maxBound == tc.CreatedAt + tc.MaxLifetime
              idleBound == lastActivity + tc.IdleTimeout
          IN /\ (tc.MaxLifetime # 0 /\ tc.IdleTimeout # 0)
                   => /\ tc.out \in {maxBound, idleBound}
                      /\ tc.out <= maxBound /\ tc.out <= idleBound
             /\ (tc.MaxLifetime # 0 /\ tc.IdleTimeout = 0) => tc.out = maxBound
             /\ (tc.MaxLifetime = 0 /\ tc.IdleTimeout # 0) => tc.out = idleBound
             /\ (tc.MaxLifetime = 1 /\ tc.IdleTimeout = 2 /\ tc.UpdatedAt = ZeroTime)
                   => tc.out = tc.CreatedAt + 1

\* both options set and the session updated late: the absolute bound wins
\* although the idle timeout is the shorter of the two
C15_Witness ==
    /\ tc.stage = "expiry"
    /\ tc.MaxLifetime = 2 /\ tc.IdleTimeout = 1
    /\ tc.CreatedAt = 0 /\ tc.UpdatedAt = 2
    /\ tc.out = 2

\* goroutines that are inside a call on the Session
InCall == {g \in Goroutines : gor[g].at # "idle"}

\* the goroutine's next step is not blocked
CanStep(g) ==
    CASE gor[g].at = "RLock" -> RLockPasses(mu)
      [] gor[g].at = "Lock" -> ~mu.w
      [] gor[g].at = "pending" -> mu.readers = 0
      [] OTHER -> TRUE

\* C16: on one Session, a goroutine inside the body of Set, SetAll, Delete
\* or Reset is alone: no other goroutine is inside the body of any of Get,
\* GetAll, Set, SetAll, Delete, Reset (bodies of Get and GetAll may run side
\* by side); and whenever goroutines are inside calls, one of them can take
\* its next step, so no interleaving of the calls deadlocks.
C16_ReadersWriterExclusion ==
    /\ \A g \in Goroutines :
          gor[g].at = "writing"
             => \A h \in Goroutines \ {g} : gor[h].at \notin {"reading", "writing"}
    /\ mu.readers = Cardinality({g \in Goroutines : gor[g].at = "reading"})
    /\ mu.writer <=> \E g \in Goroutines : gor[g].at = "writing"
    /\ InCall # {} => \E g \in InCall : CanStep(g)

\* two bodies of Get / GetAll run side by side while a Set has announced
\* itself and waits for them
C16_Witness ==
    /\ pc = "handler"
    /\ gor[1] = [op |-> "Get", at |-> "reading"]
    /\ gor[2] = [op |-> "GetAll", at |-> "reading"]
    /\ gor[3] = [op |-> "Set", at |-> "pending"]
    /\ mu = [readers |-> 2, writer |-> FALSE, w |-> TRUE]

\* C17: the map GetAll returns is a copy.  As long as the handler has not
\* passed it to SetAll, adding, changing or removing a key in it leaves the
\* Session as it is: Get and GetAll return what they returned, the flags
\* save, delete and reset stand, the bytes the hook would encode are the
\* same, and neither the KV nor the response changes.
C17_GetAllIsCopy ==
    [][(MapMutateHeld /\ ~heap.handedBack)
          => /\ \A k \in Keys : SessionGet(sctx', k) = SessionGet(sctx, k)
             /\ SessionGetAll(sctx') = SessionGetAll(sctx)
             /\ sctx'.save = sctx.save /\ sctx'.delete = sctx.delete /\ sctx'.reset = sctx.reset
             /\ gobEncode(sctx'.sessdata) = gobEncode(sctx.sessdata)
             /\ contents' = contents /\ w' = w]_vars

\* the handler stored a value, took the map, removed the key from it and put
\* another one in; the row the hook stored holds what the Session holds
C17_Witness ==
    /\ pc = "done"
    /\ m.storageMode = storageModeKV
    /\ hookOK
    /\ ~heap.handedBack
    /\ heap.heldData = [k \in {"b"} |-> "1"]
    /\ SessionGetAll(sctx) = [k \in {"a"} |-> "1"]
    /\ kvAt(contents, managerHashSessionID(SID(1))).data.rec.Data = [k \in {"a"} |-> "1"]

\* the handler's status line or bytes of its body arrive at the underlying
\* ResponseWriter in this step
HandlerOutputArrives ==
    \/ Passed(w') > Passed(w)
    \/ (w.status = 0 /\ w'.status \in {HandlerStatus, StatusOK})

\* C18: a status line or body bytes of the handler reach the underlying
\* ResponseWriter only after the save hook has finished: the closure of
\* hookOnce has returned, no goroutine is inside it, the KV calls of the hook
\* are made and, when the hook succeeded, the cookie of a stored session is
\* among the headers.  This holds with several goroutines calling Write and
\* WriteHeader at once.
C18_HookBeforeOutput ==
    [][HandlerOutputArrives
          => /\ hookOnce /\ hookRuns = 1
             /\ ~HookRunning
             /\ calls' = calls /\ contents' = contents /\ w'.header = w.header
             /\ (hookOK /\ Count("Set") = 1)
                   => /\ SessionLines(w.header) = <<SetCookieLine(m.cookieName, ctxID, 0)>>
                      /\ kvHas(contents, managerHashSessionID(ctxID))]_vars

\* the hook has stored the session in the KV and set the cookie; the Write of
\* the second goroutine has gone out while the first one, past hookOnce.Do,
\* has not yet passed its WriteHeader on
C18_Witness ==
    /\ pc = "handler"
    /\ m.storageMode = storageModeKV
    /\ gor[1] = [op |-> "WriteHeader", at |-> "after", write |-> TRUE]
    /\ gor[2] = NotCalling
    /\ hookOnce /\ hookRuns = 1
    /\ Count("Set") = 1
    /\ SessionLines(w.header) = <<SetCookieLine(m.cookieName, SID(1), 0)>>
    /\ w.status = StatusOK /\ Passed(w) = 1

\* C19: FlashMessage clears the flash on read.  After a FlashMessage that
\* returned a non-empty message, HasFlash and FlashIsError return false, a
\* second FlashMessage returns the empty string, and the session is marked
\* for save.
C19_FlashClearedOnRead ==
    [][(DoFlashMessage /\ sctx.sessdata.FlashMsg # "")
          => /\ ~SessionHasFlash(sctx')
             /\ ~SessionFlashIsError(sctx')
             /\ sctx'.sessdata.FlashMsg = ""
             /\ sctx'.save]_vars

\* the record stored in the KV under an identifier
StoredSession(kv, id) == kvAt(kv, managerHashSessionID(id)).data.rec

\* C20: createdAt through the life of a session.  Wrap gives a loaded
\* session the createdAt it was stored with; Set, SetAll and the flash calls
\* keep it; what the hook stores (a save) or leaves stored (a touch) carries
\* it; and a Reset or a Delete starts a new session, whose createdAt is the
\* time of the request that made it.
C20_CreatedAtLifecycle ==
    [][/\ (DoSet \/ DoSetAll \/ DoFlashMessage \/ DoSetFlashError \/ DoSetFlashMessage)
             => sctx'.sessdata.CreatedAt = sctx.sessdata.CreatedAt
       /\ (pc # "handler" /\ pc' = "handler" /\ m.storageMode = storageModeKV
              /\ sctx' # NewSession(now'))
             => sctx'.sessdata.CreatedAt = StoredSession(contents', cookie').CreatedAt
       /\ (~hookOnce /\ hookOnce' /\ hookOK' /\ m.storageMode = storageModeKV
              /\ Count("Set")' = 1)
             => /\ sctx'.sessdata.CreatedAt = sctx.sessdata.CreatedAt
                /\ StoredSession(contents', ctxID').CreatedAt = sctx.sessdata.CreatedAt
       /\ (DoReset \/ DoDelete) => sctx'.sessdata.CreatedAt = now]_vars

\* the hook fires on a handle whose save or reset flag is set and returns
\* without error
SaveFires ==
    /\ ~hookOnce /\ hookOnce'
    /\ (sctx.save \/ sctx.reset)
    /\ hookErr' = ""

\* the record inside a session cookie value, compressed or not
CookieRecord(value) ==
    LET Rec(pt) == IF pt.t = "zlib" THEN pt.body.body.rec ELSE pt.body.rec
    IN Rec(DecryptedPayload(value))

\* the record the response of the request in flight persisted
PersistedRecord(kv, id, header) ==
    IF m.storageMode = storageModeKV THEN StoredSession(kv, id)
    ELSE CookieRecord(SessionLines(header)[Len(SessionLines(header))].value)

\* C21: every record the hook hands to the codec and persists (the KV row
\* under the identifier of the response, or the session cookie of the
\* response) is the handle's record with UpdatedAt equal to the time at
\* which the hook fired, and its UpdatedAt is not before its CreatedAt.
C21_UpdatedAtStamped ==
    [][SaveFires
          => /\ PersistedRecord(contents', ctxID', w'.header) = sctx'.sessdata
             /\ PersistedRecord(contents', ctxID', w'.header).UpdatedAt = now
             /\ PersistedRecord(contents', ctxID', w'.header).UpdatedAt
                   >= PersistedRecord(contents', ctxID', w'.header).CreatedAt]_vars

\* a session created at an earlier time was loaded, changed and saved
C21_Witness ==
    /\ pc = "done" /\ hookOK /\ sctx.save /\ cookie # NoCookie
    /\ m.storageMode = storageModeKV
    /\ kvHas(contents, managerHashSessionID(ctxID))
    /\ StoredSession(contents, ctxID).CreatedAt >= 0
    /\ StoredSession(contents, ctxID).CreatedAt < now
    /\ StoredSession(contents, ctxID).UpdatedAt = now


\* the identifiers the request in flight can know: the value of its session
\* cookie and the values rand.Text() has returned
KnownIDs == ({cookie} \ {NoCookie}) \cup {SID(n) : n \in 1..(nextId - 1)}

\* C22: in KV mode every key passed to Get, Set and Delete is the SHA-256
\* hex hash of a session identifier (the request's cookie value or a value
\* drawn from rand.Text) and never an identifier itself; no row is kept
\* under a raw identifier; and once the hook has called Set without error, the
\* session cookie of the response carries the raw identifier whose hash was
\* the key of the last Set, not the hash and not the payload.
C22_HashedKeysRawCookie ==
    m.storageMode = storageModeKV
       => /\ \A i \in 1..Len(calls) :
                /\ calls[i].op \in {"Get", "Set", "Delete"}
                /\ calls[i].key \notin KnownIDs
                /\ \E id \in KnownIDs : calls[i].key = managerHashSessionID(id)
          /\ \A it \in contents :
                /\ it.key \notin KnownIDs \cup {LegacyID}
                /\ \E id \in KnownIDs \cup {LegacyID} : it.key = managerHashSessionID(id)
          /\ (hookOnce /\ hookOK /\ Count("Set") = 1)
                => \A i \in 1..Len(SessionLines(w.header)) :
                      SessionLines(w.header)[i].maxAge >= 0
                         => /\ SessionLines(w.header)[i].value \in KnownIDs
                            /\ SessionLines(w.header)[i].value = ctxID
                            /\ calls[Len(calls)]
                                  = KVCall("Set", managerHashSessionID(SessionLines(w.header)[i].value))
                            /\ \A it \in contents :
                                  /\ SessionLines(w.header)[i].value # it.key
                                  /\ SessionLines(w.header)[i].value # it.data

\* a loaded session was reset: Get, Delete and Set were all called, and the
\* response carries the new identifier
C22_Witness ==
    /\ m.storageMode = storageModeKV
    /\ pc = "done" /\ hookOK
    /\ Count("Get") = 1 /\ Count("Delete") = 1 /\ Count("Set") = 1
    /\ Len(SessionLines(w.header)) = 1
    /\ SessionLines(w.header)[1].value = ctxID
    /\ ctxID # cookie


\* ---------------------------------------------------------------- memoryKV
\* Set, Delete and Get called directly on a memoryKV, one call at a time, as
\* the compliance test does, with time passing between calls.  tc keeps what
\* the caller did to each key (the latest Set and whether a Delete followed
\* it) and what the last Get returned.
KVKeys == {"testkey1", "testkey2"}
KVValues == {Raw("v1", 5, 5), Raw("v2", 5, 5)}
KVExpiries == 0..MaxTime

NeverSet == [state |-> "never", value |-> NilBytes, expiresAt |-> 0, replaced |-> FALSE]
NoGet == [key |-> "", found |-> FALSE, data |-> NilBytes, err |-> "", at |-> 0, was |-> NeverSet]

InitKV ==
    /\ m = Manager(storageModeKV, TheAEAD, FALSE, SessionCookieName, 0, IdleTicks)
    /\ contents = {}
    /\ NoRequestYet
    /\ tc = [stage |-> "kv", latest |-> [k \in KVKeys |-> NeverSet], got |-> NoGet, err |-> ""]
    /\ ta = NoCase

\* kv.Set(ctx, key, expiresAt, value); it returns nil
KVSet ==
    /\ tc.stage = "kv"
    /\ \E key \in KVKeys, expiresAt \in KVExpiries, value \in KVValues :
          /\ contents' = memoryKVSet(contents, key, expiresAt, value)
          /\ tc' = [tc EXCEPT !.latest[key] =
                                  [state |-> "set", value |-> value, expiresAt |-> expiresAt,
                                   replaced |-> /\ @.state = "set"
                                                /\ @.value # value
                                                /\ @.expiresAt # expiresAt],
                              !.err = ""]
    /\ UNCHANGED <<m, now, nextId, jar, pc, cookie, ctxID, sctx, hookOnce, hookOK,
                   hookErr, loadErr, w, wret, calls, hookRuns, nreq, nops, ta, mu, gor, heap>>

\* kv.Delete(ctx, key); it returns nil
KVDelete ==
    /\ tc.stage = "kv"
    /\ \E key \in KVKeys :
          /\ contents' = memoryKVDelete(contents, key)
          /\ tc' = [tc EXCEPT !.latest[key] = [@ EXCEPT !.state = "deleted"], !.err = ""]
    /\ UNCHANGED <<m, now, nextId, jar, pc, cookie, ctxID, sctx, hookOnce, hookOK,
                   hookErr, loadErr, w, wret, calls, hookRuns, nreq, nops, ta, mu, gor, heap>>

\* kv.Get(ctx, key); every return statement gives a nil error
KVGet ==
    /\ tc.stage = "kv"
    /\ \E key \in KVKeys :
          LET Got(r) ==
                  /\ contents' = r.contents
                  /\ tc' = [tc EXCEPT !.got = [key |-> key, found |-> r.found, data |-> r.data,
                                               err |-> "", at |-> now, was |-> tc.latest[key]]]
          IN Got(memoryKVGet(contents, key, now))
    /\ UNCHANGED <<m, now, nextId, jar, pc, cookie, ctxID, sctx, hookOnce, hookOK,
                   hookErr, loadErr, w, wret, calls, hookRuns, nreq, nops, ta, mu, gor, heap>>

\* time passes between two calls
KVTick ==
    /\ tc.stage = "kv"
    /\ now < MaxTime
    /\ now' = now + 1
    /\ UNCHANGED <<m, contents, nextId, jar, pc, cookie, ctxID, sctx, hookOnce, hookOK,
                   hookErr, loadErr, w, wret, calls, hookRuns, nreq, nops, tc, ta, mu, gor, heap>>

NextKV ==
    \/ KVSet
    \/ KVDelete
    \/ KVGet
    \/ KVTick

SpecKV == InitKV /\ [][NextKV]_vars

\* what an expiring map answers for a key at time t, given the latest Set of
\* the key and whether a Delete followed it
ExpiringMapHas(l, t) == l.state = "set" /\ ~(t > l.expiresAt)

\* C23: memoryKV is an expiring map.  After any sequence of Set, Delete and
\* Get with time passing, a Get of any key finds the value of the latest Set
\* of that key exactly when no Delete followed that Set and its expiresAt has
\* not passed, and otherwise returns not found with no data; no call returns
\* an error (Delete of an absent key included); the last Get made returned
\* just that; and the map holds no more than one entry per key.
C23_ExpiringMap ==
    tc.stage = "kv"
       => /\ \A k \in KVKeys :
                /\ memoryKVGet(contents, k, now).found <=> ExpiringMapHas(tc.latest[k], now)
                /\ memoryKVGet(contents, k, now).data
                      = IF ExpiringMapHas(tc.latest[k], now) THEN tc.latest[k].value ELSE NilBytes
                /\ Cardinality({it \in contents : it.key = k}) <= 1
          /\ tc.got.found <=> ExpiringMapHas(tc.got.was, tc.got.at)
          /\ tc.got.data = IF tc.got.found THEN tc.got.was.value ELSE NilBytes
          /\ tc.got.err = ""
          /\ tc.err = ""

\* a Get found the value of a Set that replaced the value and expiry of an
\* earlier Set, while another key that was set has expired, was looked up
\* and is gone, and a key that was never set was deleted
C23_Witness ==
    /\ tc.stage = "kv"
    /\ tc.got.found /\ tc.got.was.replaced
    /\ \E k \in KVKeys \ {tc.got.key} :
          /\ tc.latest[k].state = "set"
          /\ now > tc.latest[k].expiresAt
          /\ ~kvHas(contents, k)


\* the Set-Cookie lines of the response for every other cookie name
OtherLines(header) == SelectSeq(header, LAMBDA c : c.name # m.cookieName)

\* the hook fires and takes one of its paths: delete, reset, save or touch
PathFires ==
    /\ ~hookOnce /\ hookOnce'
    /\ \/ sctx.delete \/ sctx.reset \/ sctx.save
       \/ (m.IdleTimeout # 0 /\ sctx.datab # NilBytes)

\* C24: after the hook the response has at most one Set-Cookie line for the
\* session cookie name, whichever path ran and whether or not a component
\* upstream had set a cookie of that name, and the lines for other cookie
\* names are the ones that were there, in their order.  When the path ran
\* without error the one line is the manager's own: the deletion cookie, or
\* a cookie whose value the manager produced.
C24_OneSessionCookie ==
    [][(~hookOnce /\ hookOnce')
          => /\ Len(SessionLines(w'.header)) <= 1
             /\ OtherLines(w'.header) = OtherLines(w.header)
             /\ (PathFires /\ hookErr' = "")
                   => /\ Len(SessionLines(w'.header)) = 1
                      /\ SessionLines(w'.header)[1].value # NoDotString
                      /\ w'.header[Len(w'.header)] = SessionLines(w'.header)[1]
                      /\ (sctx.delete /\ ~sctx.save /\ ~sctx.reset)
                            <=> SessionLines(w'.header)[1].maxAge < 0]_vars

\* a reset (delete followed by save) behind a component that had set a
\* cookie of the session's name and one of another name
C24_Witness ==
    /\ pc = "done" /\ hookOK
    /\ sctx.reset
    /\ m.storageMode = storageModeKV
    /\ Count("Delete") = 1 /\ Count("Set") = 1
    /\ Len(w.header) = 2
    /\ w.header[1] = SetCookieLine(OtherCookieName, NoDotString, 0)
    /\ w.header[2] = SetCookieLine(m.cookieName, ctxID, 0)


\* ------------------------------------------------ handlers wrapped in turn
\* One request passes through the handlers that Wrap returned, nested: each
\* handler is that of the manager m or of a second manager built with another
\* cookie name, and the innermost next handler uses the Session it finds
\* with FromContext.  tc.rctx is the chain of values context.WithValue has
\* put in the request context, tc.wraps the managers whose handler has been
\* entered, tc.loads those that called loadSession, tc.served those that
\* called next.ServeHTTP.
MaxNest == 2

\* the key under which Wrap keeps the Session: the same for every manager
sessionContextKey(mgr) == "sessionContextKey{}"

NoContextValue == [key |-> "", owner |-> "", cookie |-> NoCookie, sctx |-> NewSession(0)]

\* ctx.Value(key): the value of the innermost WithValue of that key
RECURSIVE ContextValue(_, _)
ContextValue(rctx, key) ==
    IF rctx = <<>> THEN NoContextValue
    ELSE IF rctx[Len(rctx)].key = key THEN rctx[Len(rctx)]
    ELSE ContextValue(SubSeq(rctx, 1, Len(rctx) - 1), key)

AlreadyWrappedNever(rctx, mgr) == FALSE

\* the type assertion at the top of Wrap's handler succeeds
AlreadyWrapped(rctx, mgr) == ContextValue(rctx, sessionContextKey(mgr)) # NoContextValue

WrappedMoreThanOnce == "session middleware wrapped more than once"

NestManagers == {m, Renamed(m)}

InitNest ==
    /\ m \in ConstructedManagers
    /\ contents = IF m.storageMode = storageModeKV
                  THEN {kvItem(managerHashSessionID(LegacyID), LegacyPayload, MaxTime + 1)}
                  ELSE {}
    /\ NoRequestYet
    /\ tc = [stage |-> "nest", rctx |-> <<>>, wraps |-> <<>>, loads |-> <<>>, served |-> <<>>,
             panic |-> "", returning |-> FALSE, ops |-> 0]
    /\ ta = NoCase

\* the handler returned by mgr.Wrap runs on the request, up to the call of
\* next.ServeHTTP, or panics
NestWrapEnter ==
    /\ tc.stage = "nest" /\ tc.panic = "" /\ ~tc.returning
    /\ Len(tc.wraps) < MaxNest
    /\ \E mgr \in NestManagers, c \in {NoCookie, LegacyID} :
          /\ (c = LegacyID => mgr.storageMode = storageModeKV)
          /\ IF AlreadyWrapped(tc.rctx, mgr)
             THEN /\ tc' = [tc EXCEPT !.wraps = Append(@, mgr.cookieName),
                                      !.panic = WrappedMoreThanOnce]
                  /\ UNCHANGED <<contents, calls>>
             ELSE LET Attached(ld) ==
                          /\ contents' = ld.contents
                          /\ calls' = calls \o ld.calls
                          /\ tc' = [tc EXCEPT !.wraps = Append(@, mgr.cookieName),
                                              !.loads = Append(@, mgr.cookieName),
                                              !.served = Append(@, mgr.cookieName),
                                              !.rctx = Append(@, [key |-> sessionContextKey(mgr),
                                                                  owner |-> mgr.cookieName,
                                                                  cookie |-> c,
                                                                  sctx |-> ld.sctx])]
                  IN Attached(WrapLoad(mgr, contents, c, now, FALSE))
    /\ UNCHANGED <<m, now, nextId, jar, pc, cookie, ctxID, sctx, hookOnce, hookOK,
                   hookErr, loadErr, w, wret, hookRuns, nreq, nops, ta, mu, gor, heap>>

\* the innermost next handler: FromContext, then Set on the handle
NestSet ==
    /\ tc.stage = "nest" /\ tc.panic = "" /\ ~tc.returning
    /\ tc.rctx # <<>>
    /\ tc.ops < MaxOps
    /\ \E k \in Keys : \E v \in ValsOf(k) :
          tc' = [tc EXCEPT !.ops = @ + 1,
                           !.rctx = [i \in 1..Len(tc.rctx) |->
                                       IF tc.rctx[i] = ContextValue(tc.rctx, "sessionContextKey{}")
                                       THEN [tc.rctx[i] EXCEPT !.sctx = SessionSet(@, k, v)]
                                       ELSE tc.rctx[i]]]
    /\ UNCHANGED <<m, contents, now, nextId, jar, pc, cookie, ctxID, sctx, hookOnce, hookOK,
                   hookErr, loadErr, w, wret, calls, hookRuns, nreq, nops, ta, mu, gor, heap>>

\* next.ServeHTTP of the innermost handler still running returns; its Wrap
\* fires the hook of its manager on its Session
NestReturn ==
    /\ tc.stage = "nest" /\ tc.panic = ""
    /\ tc.rctx # <<>>
    /\ LET Fired(r) ==
               /\ contents' = r.e.contents
               /\ w' = Writer(r.e.header, r.e.status, r.e.body)
               /\ nextId' = r.e.nextId
               /\ calls' = r.e.calls
           Own(v) ==
               Fired(saveHook(IF v.owner = m.cookieName THEN m ELSE Renamed(m), v.cookie, v.sctx,
                              Effects(contents, w.header, w.status, w.body, NoID, nextId, calls),
                              now, FALSE, FALSE))
       IN Own(tc.rctx[Len(tc.rctx)])
    /\ tc' = [tc EXCEPT !.returning = TRUE, !.rctx = SubSeq(@, 1, Len(@) - 1)]
    /\ UNCHANGED <<m, now, jar, pc, cookie, ctxID, sctx, hookOnce, hookOK,
                   hookErr, loadErr, wret, hookRuns, nreq, nops, ta, mu, gor, heap>>

NextNest ==
    \/ NestWrapEnter
    \/ NestSet
    \/ NestReturn

SpecNest == InitNest /\ [][NextNest]_vars

\* the managers that have a Session in the request context
Owners(rctx) == {rctx[i].owner : i \in 1..Len(rctx)}

\* a step in which one more handler returned by Wrap is entered
WrapEntered == tc.stage = "nest" /\ Len(tc'.wraps) = Len(tc.wraps) + 1

\* C25: when the handler of a manager is entered on a request to which
\* another manager has attached its Session, it does not panic: it loads and
\* attaches its own Session, leaves the one attached by the other manager as
\* it is, and calls the next handler, so that both Sessions are in the
\* request context.
C25_NestedManagers ==
    [][(WrapEntered /\ tc.rctx # <<>>
           /\ tc'.wraps[Len(tc'.wraps)] \notin Owners(tc.rctx))
          => /\ tc'.panic = ""
             /\ tc'.served = Append(tc.served, tc'.wraps[Len(tc'.wraps)])
             /\ Len(tc'.rctx) = Len(tc.rctx) + 1
             /\ SubSeq(tc'.rctx, 1, Len(tc.rctx)) = tc.rctx
             /\ Owners(tc'.rctx) = Owners(tc.rctx) \cup {tc'.wraps[Len(tc'.wraps)]}]_vars

DefaultIdleTimeout == 24 * 3600 * TicksPerSec

\* opts == nil, and CookieOpts == nil
NilOpts == [nil |-> TRUE]
NilCookieOpts == [nil |-> TRUE]

\* the *Manager returned next to an error
NilManager == Manager("", TheAEAD, FALSE, "", 0, 0)

ManagerOpts(maxLifetime, idleTimeout, cookieOpts) ==
    [nil |-> FALSE, MaxLifetime |-> maxLifetime, IdleTimeout |-> idleTimeout,
     CookieOpts |-> cookieOpts]

SessionCookieOpts(name) == [nil |-> FALSE, Name |-> name]

KVSessionCookieName == "__Host-session-id"

ErrNoExpiry == "at least one of idle timeout or max lifetime must be specified"

\* the part both constructors share: m.opts, the check, the cookie settings
newManager(mode, aead, opts, defaultName) ==
    LET Built(o) ==
            IF ~ValidOpts(o.MaxLifetime, o.IdleTimeout)
            THEN [err |-> ErrNoExpiry, mgr |-> NilManager]
            ELSE [err |-> "",
                  mgr |-> Manager(mode, aead, FALSE,
                                  IF o.CookieOpts.nil THEN defaultName ELSE o.CookieOpts.Name,
                                  o.MaxLifetime, o.IdleTimeout)]
    IN Built(IF opts.nil THEN ManagerOpts(0, DefaultIdleTimeout, NilCookieOpts) ELSE opts)

NewCookieManager(aead, opts) == newManager(storageModeCookie, aead, opts, SessionCookieName)

NewKVManager(opts) == newManager(storageModeKV, TheAEAD, opts, KVSessionCookieName)

\* durations a caller can pass: a negative one is not zero
OptDurations == (0 - 1)..MaxDur

OptsInputs ==
    {NilOpts} \cup {ManagerOpts(ml, it, co) :
                        ml \in OptDurations, it \in OptDurations,
                        co \in {NilCookieOpts, SessionCookieOpts(OtherCookieName)}}

InitNew ==
    /\ m = NilManager
    /\ contents = {}
    /\ NoRequestYet
    /\ tc = [stage |-> "new", called |-> "", opts |-> NilOpts, err |-> "", expiry |-> ZeroTime,
             used |-> FALSE]
    /\ ta = NoCase

Construct ==
    /\ tc.stage = "new" /\ tc.called = ""
    /\ \E opts \in OptsInputs, ctor \in {"NewCookieManager", "NewKVManager"} :
          LET Returned(r) ==
                  /\ m' = r.mgr
                  /\ tc' = [tc EXCEPT !.called = ctor, !.opts = opts, !.err = r.err]
          IN Returned(IF ctor = "NewCookieManager" THEN NewCookieManager(TheAEAD, opts)
                      ELSE NewKVManager(opts))
    /\ UNCHANGED <<contents, now, nextId, jar, pc, cookie, ctxID, sctx, hookOnce, hookOK,
                   hookErr, loadErr, w, wret, calls, hookRuns, nreq, nops, ta, mu, gor, heap>>

\* the manager computes the expiry of a session created now
ConstructedExpiry ==
    /\ tc.stage = "new" /\ tc.called # "" /\ tc.err = "" /\ ~tc.used
    /\ tc' = [tc EXCEPT !.used = TRUE, !.expiry = calculateExpiry(m, NewSession(now).sessdata)]
    /\ UNCHANGED <<m, contents, now, nextId, jar, pc, cookie, ctxID, sctx, hookOnce, hookOK,
                   hookErr, loadErr, w, wret, calls, hookRuns, nreq, nops, ta, mu, gor, heap>>

\* chacha20poly1305.KeySize
KeySize == 32

\* key material handed to NewXChaPolyAEAD: its length, and whether every
\* byte of it is zero
KeyBytes(len, zero) == [len |-> len, zero |-> zero]

KeyInputs == {KeyBytes(len, zero) : len \in {KeySize - 1, KeySize, KeySize + 1}, zero \in BOOLEAN}

KeyListInputs ==
    {<<>>} \cup {<<k>> : k \in KeyInputs} \cup {<<k1, k2>> : k1 \in KeyInputs, k2 \in KeyInputs}

ErrKeySize == "keys must be 32 bytes"

\* the loop over append([][]byte{encryptionKey}, additionalDecryptionKeys...)
RECURSIVE KeysChecked(_)
KeysChecked(keys) ==
    IF keys = <<>> THEN ""
    ELSE IF Head(keys).len # KeySize THEN ErrKeySize
    ELSE KeysChecked(Tail(keys))

NewXChaPolyAEAD(encryptionKey, additionalDecryptionKeys) ==
    LET Checked(err) ==
            IF err # "" THEN [err |-> err, nil |-> TRUE, aead |-> xchaPolyAEAD(KeyBytes(0, TRUE), <<>>)]
            ELSE [err |-> "", nil |-> FALSE,
                  aead |-> xchaPolyAEAD(encryptionKey, additionalDecryptionKeys)]
    IN Checked(KeysChecked(<<encryptionKey>> \o additionalDecryptionKeys))

ConstructAEAD ==
    /\ tc.stage = "new"
    /\ ta.stage = "none"
    /\ \E ek \in KeyInputs, dks \in KeyListInputs :
          ta' = [stage |-> "newaead", keys |-> <<ek>> \o dks, out |-> NewXChaPolyAEAD(ek, dks)]
    /\ UNCHANGED <<m, contents, now, nextId, jar, pc, cookie, ctxID, sctx, hookOnce, hookOK,
                   hookErr, loadErr, w, wret, calls, hookRuns, nreq, nops, tc, mu, gor, heap>>

NextNew ==
    \/ Construct
    \/ ConstructedExpiry
    \/ ConstructAEAD

SpecNew == InitNew /\ [][NextNew]_vars

\* C27: a constructor returns an error and no manager exactly when options
\* were passed and their IdleTimeout and MaxLifetime are both zero; in every
\* other case it returns a manager of its storage mode whose IdleTimeout or
\* MaxLifetime is not zero (with nil options: IdleTimeout 24h, no
\* MaxLifetime, the mode's default cookie name), and that manager computes
\* an expiry for a new session.
C27_ExpiryPolicyRequired ==
    (tc.stage = "new" /\ tc.called # "")
       => /\ tc.err # "" <=> (~tc.opts.nil /\ tc.opts.IdleTimeout = 0 /\ tc.opts.MaxLifetime = 0)
          /\ tc.err # "" => (tc.err = ErrNoExpiry /\ m = NilManager)
          /\ tc.err = ""
                => /\ (m.IdleTimeout # 0 \/ m.MaxLifetime # 0)
                   /\ m.storageMode = IF tc.called = "NewCookieManager" THEN storageModeCookie
                                       ELSE storageModeKV
                   /\ tc.opts.nil
                         => /\ m.IdleTimeout = DefaultIdleTimeout /\ m.MaxLifetime = 0
                            /\ m.cookieName = IF tc.called = "NewCookieManager"
                                               THEN SessionCookieName ELSE KVSessionCookieName
                   /\ ~tc.opts.nil
                         => (m.IdleTimeout = tc.opts.IdleTimeout /\ m.MaxLifetime = tc.opts.MaxLifetime)
                   /\ tc.used => tc.expiry # ZeroTime

\* NewKVManager was given options with cookie settings and two zero
\* durations and returned the error and no manager
C27_Witness ==
    /\ tc.stage = "new" /\ tc.called = "NewKVManager"
    /\ ~tc.opts.nil /\ ~tc.opts.CookieOpts.nil
    /\ tc.opts.IdleTimeout = 0 /\ tc.opts.MaxLifetime = 0
    /\ tc.err = ErrNoExpiry
    /\ m = NilManager


\* C28: NewXChaPolyAEAD returns an error and no AEAD exactly when the
\* encryption key or one of the additional decryption keys is not 32 bytes
\* long or is all zero bytes, and otherwise returns an AEAD holding the keys
\* it was given.
C28_KeysValidated ==
    ta.stage = "newaead"
       => /\ ta.out.err # ""
                <=> \E i \in 1..Len(ta.keys) : ta.keys[i].len # KeySize \/ ta.keys[i].zero
          /\ ta.out.err # "" => ta.out.nil
          /\ ta.out.err = ""
                => /\ ~ta.out.nil
                   /\ DecryptKeyOrder(ta.out.aead) = ta.keys


\* --------------------------------------------------------------- gobCodec
\* Encode and Decode called directly on any record: a data map of up to two
\* keys holding strings, byte slices, nested maps, times or functions, any
\* creation and update time, any flash.
GobValues == {"1", "big", "nested", "when", "fn"}

GobData ==
    {EmptyMap} \cup {MapPut(EmptyMap, "a", v) : v \in GobValues}
               \cup {MapPut(MapPut(EmptyMap, "a", v1), "b", v2) : v1 \in GobValues, v2 \in GobValues}

GobRecords ==
    {persistedSession(d, c, u, f, msg) :
        d \in GobData, c \in {ZeroTime} \cup (0..MaxTime), u \in {ZeroTime, MaxTime},
        f \in {flashLevelNone, flashLevelInfo, flashLevelError}, msg \in {"", "m"}}

InitGob ==
    /\ m \in {x \in ConstructedManagers : x.storageMode = storageModeCookie /\ x.MaxLifetime = 0}
    /\ contents = {}
    /\ NoRequestYet
    /\ tc = [stage |-> "gob", step |-> "start"]
    /\ ta = NoCase

\* g.Encode(sess)
GobEncode ==
    /\ tc.stage = "gob" /\ tc.step = "start"
    /\ \E sess \in GobRecords :
          tc' = [stage |-> "gob", step |-> "encoded", sess |-> sess, enc |-> gobEncode(sess),
                 dec |-> gobDecode(NilBytes)]
    /\ UNCHANGED <<m, contents, now, nextId, jar, pc, cookie, ctxID, sctx, hookOnce, hookOK,
                   hookErr, loadErr, w, wret, calls, hookRuns, nreq, nops, ta, mu, gor, heap>>

\* g.Decode(data) on the bytes Encode returned
GobDecode ==
    /\ tc.stage = "gob" /\ tc.step = "encoded"
    /\ tc.enc.err = ""
    /\ tc' = [tc EXCEPT !.step = "decoded", !.dec = gobDecode(tc.enc.data)]
    /\ UNCHANGED <<m, contents, now, nextId, jar, pc, cookie, ctxID, sctx, hookOnce, hookOK,
                   hookErr, loadErr, w, wret, calls, hookRuns, nreq, nops, ta, mu, gor, heap>>

NextGob ==
    \/ GobEncode
    \/ GobDecode

SpecGob == InitGob /\ [][NextGob]_vars

\* C29: for every persisted session record, Encode succeeds, and Decode of
\* the bytes it returned succeeds and gives a record with the same data map,
\* creation time, update time, flash level and flash message.
C29_GobRoundTrip ==
    (tc.stage = "gob" /\ tc.step # "start")
       => /\ tc.enc.err = ""
          /\ tc.step = "decoded"
                => /\ tc.dec.err = ""
                   /\ tc.dec.rec.Data = tc.sess.Data
                   /\ tc.dec.rec.CreatedAt = tc.sess.CreatedAt
                   /\ tc.dec.rec.UpdatedAt = tc.sess.UpdatedAt
                   /\ tc.dec.rec.Flash = tc.sess.Flash
                   /\ tc.dec.rec.FlashMsg = tc.sess.FlashMsg


\* the hook fires in KV mode on a session that was loaded under the
\* identifier of the request cookie and then only updated, and stores it
UpdateFires ==
    /\ ~hookOnce /\ hookOnce'
    /\ m.storageMode = storageModeKV
    /\ cookie # NoCookie /\ loadErr = ""
    /\ kvHas(contents, managerHashSessionID(cookie))
    /\ sctx.save /\ ~sctx.reset /\ ~sctx.delete
    /\ hookErr' = ""

\* C30: in KV mode, when a session loaded under identifier I is updated
\* (Set or SetAll, no Reset, no Delete), the hook stores the new record
\* under the hash of I and sets the cookie to I again: the identifier in the
\* request context and in the response is I, the store has the same keys as
\* before, and the row under the hash of I holds the new record.
C30_UpdateKeepsIdentifier ==
    [][UpdateFires
          => /\ ctxID' = cookie
             /\ SessionLines(w'.header) = <<SetCookieLine(m.cookieName, cookie, 0)>>
             /\ calls' = Append(calls, KVCall("Set", managerHashSessionID(cookie)))
             /\ {it.key : it \in contents'} = {it.key : it \in contents}
             /\ StoredSession(contents', cookie) = sctx'.sessdata]_vars


\* ------------------------------------------------------ one logical session
\* One client: its first request carries no session cookie, and once a
\* response has issued an identifier every later request carries one of the
\* identifiers the responses issued, so that every identifier in jar belongs
\* to the same logical session.
WrapEnterClient == WrapEnter(IF jar = {} THEN {NoCookie} ELSE jar, MaxReq)

\* calls on the Session handle over the client's requests
MaxClientOps == 3

ClientCall(next) ==
    /\ pc = "handler"
    /\ nops < MaxClientOps
    /\ sctx' = next
    /\ nops' = nops + 1
    /\ UNCHANGED <<m, contents, now, nextId, jar, pc, cookie, ctxID, hookOnce, hookOK,
                   hookErr, loadErr, w, wret, calls, hookRuns, nreq, tc, ta, mu, gor, heap>>

ClientSet == ClientCall(SessionSet(sctx, "a", "1"))
ClientDelete == ClientCall(SessionDelete(sctx))
ClientReset == ClientCall(SessionReset(sctx))

NextClient ==
    \/ WrapEnterClient
    \/ ClientSet
    \/ ClientDelete
    \/ ClientReset
    \/ WrapReturn

SpecClient == Init /\ [][NextClient]_vars

\* the request in flight completes with Delete or Reset as the terminal
\* action of a session it had loaded, the hook returning true
DestroyCompletes ==
    /\ pc = "handler" /\ pc' = "done"
    /\ m.storageMode = storageModeKV
    /\ cookie # NoCookie /\ loadErr = ""
    /\ Count("Get") = 1
    /\ (sctx'.delete \/ sctx'.reset)
    /\ hookOK'

\* C31: in KV mode, once a request whose terminal action is Delete or Reset
\* has completed, none of the identifiers that earlier responses issued for
\* the session has a live row in the store: a request carrying any of them
\* loads no session data.
C31_DestroyedEverywhere ==
    [][DestroyCompletes
          => \A id \in jar : ~RowAlive(id, now)']_vars


\* ------------------------------------------- requests of one session at once
\* Two requests carrying the same identifier are in flight together, each in
\* its own goroutine with its own Session and response, sharing the KV.  A
\* request is: Wrap loads, the handler makes at most one call on the handle,
\* the hook fires.  tc.req keeps the requests.
RaceRequests == {1, 2}

\* the identifier both requests carry, and the record stored under it
SharedID == LegacyID
SharedRecord == persistedSession(MapPut(EmptyMap, "a", "1"), 0, 0, flashLevelNone, "")

NotStarted ==
    [pc |-> "idle", sctx |-> NewSession(0), header |-> <<>>, ok |-> TRUE, found |-> FALSE,
     called |-> ""]

InitRace ==
    /\ m \in {x \in ConstructedManagers : x.storageMode = storageModeKV /\ x.IdleTimeout # 0}
    /\ contents = {kvItem(managerHashSessionID(SharedID), GobStream(SharedRecord), MaxTime + 1)}
    /\ NoRequestYet
    /\ tc = [stage |-> "race", req |-> [r \in RaceRequests |-> NotStarted]]
    /\ ta = NoCase

\* Wrap of request r up to next.ServeHTTP
RaceEnter(r) ==
    /\ tc.stage = "race" /\ tc.req[r].pc = "idle"
    /\ LET Attached(ld) ==
               /\ contents' = ld.contents
               /\ calls' = calls \o ld.calls
               /\ tc' = [tc EXCEPT !.req[r] = [@ EXCEPT !.pc = "handler", !.sctx = ld.sctx,
                                                         !.found = ld.sctx.datab # NilBytes]]
       IN Attached(WrapLoad(m, contents, SharedID, now, FALSE))
    /\ UNCHANGED <<m, now, nextId, jar, pc, cookie, ctxID, sctx, hookOnce, hookOK,
                   hookErr, loadErr, w, wret, hookRuns, nreq, nops, ta, mu, gor, heap>>

\* the handler of request r calls Set, Delete or Reset
RaceCall(r) ==
    /\ tc.stage = "race" /\ tc.req[r].pc = "handler" /\ tc.req[r].called = ""
    /\ \E op \in {"Set", "Delete", "Reset"} :
          tc' = [tc EXCEPT !.req[r] =
                    [@ EXCEPT !.called = op,
                              !.sctx = CASE op = "Set" -> SessionSet(@, "b", "1")
                                         [] op = "Delete" -> SessionDelete(@)
                                         [] OTHER -> SessionReset(@)]]
    /\ UNCHANGED <<m, contents, now, nextId, jar, pc, cookie, ctxID, sctx, hookOnce, hookOK,
                   hookErr, loadErr, w, wret, calls, hookRuns, nreq, nops, ta, mu, gor, heap>>

\* the hook of request r fires and Wrap returns
RaceHook(r) ==
    /\ tc.stage = "race" /\ tc.req[r].pc = "handler"
    /\ LET Fired(h) ==
               /\ contents' = h.e.contents
               /\ nextId' = h.e.nextId
               /\ calls' = h.e.calls
               /\ tc' = [tc EXCEPT !.req[r] = [@ EXCEPT !.pc = "done", !.sctx = h.sctx,
                                                         !.header = h.e.header, !.ok = h.ok]]
       IN Fired(saveHook(m, SharedID, tc.req[r].sctx,
                         Effects(contents, <<>>, 0, <<>>, NoID, nextId, calls),
                         now, FALSE, FALSE))
    /\ UNCHANGED <<m, now, jar, pc, cookie, ctxID, sctx, hookOnce, hookOK,
                   hookErr, loadErr, w, wret, hookRuns, nreq, nops, ta, mu, gor, heap>>

\* time passes
RaceTick ==
    /\ tc.stage = "race"
    /\ now < MaxTime
    /\ now' = now + 1
    /\ UNCHANGED <<m, contents, nextId, jar, pc, cookie, ctxID, sctx, hookOnce, hookOK,
                   hookErr, loadErr, w, wret, calls, hookRuns, nreq, nops, tc, ta, mu, gor, heap>>

NextRace ==
    \/ \E r \in RaceRequests : RaceEnter(r)
    \/ \E r \in RaceRequests : RaceCall(r)
    \/ \E r \in RaceRequests : RaceHook(r)
    \/ RaceTick

SpecRace == InitRace /\ [][NextRace]_vars

\* a request that found the session and called Delete or Reset has completed
\* its hook
Destroyed ==
    \E r \in RaceRequests :
        /\ tc.req[r].pc = "done" /\ tc.req[r].ok /\ tc.req[r].found
        /\ tc.req[r].called \in {"Delete", "Reset"}

\* C32: in KV mode with an idle timeout, once a request that called Delete
\* or Reset has completed its hook, the store has no row under the hash of
\* the identifier it carried, whatever the hooks of the other requests in
\* flight with the same identifier do afterwards.
C32_NoResurrection ==
    (tc.stage = "race" /\ Destroyed) => ~kvHas(contents, managerHashSessionID(SharedID))


\* ------------------------------------- every method of a shared Session
\* The goroutines of one handler call the mutators, the flash methods and
\* Write on the hookRW at the same time.  A mutator takes sessdataMu as
\* above; a flash method and the hook run their bodies without taking it.
FlashMethods == {"HasFlash", "FlashIsError", "FlashMessage", "SetFlashError", "SetFlashMessage"}

\* the handle after the body of a flash method
FlashBody(s, op) ==
    CASE op = "FlashMessage" -> SessionFlashMessage(s)
      [] op = "SetFlashError" -> SessionSetFlashError(s, "m")
      [] op = "SetFlashMessage" -> SessionSetFlashMessage(s, "m")
      [] OTHER -> s

\* a goroutine enters Set, SetAll, Delete or Reset
MutatorCall ==
    /\ pc = "handler"
    /\ nops < MaxGoCalls
    /\ \E g \in Goroutines, op \in Mutators :
          /\ gor[g].at = "idle"
          /\ gor' = [gor EXCEPT ![g] = [op |-> op, at |-> "Lock"]]
    /\ nops' = nops + 1
    /\ UNCHANGED <<m, contents, now, nextId, jar, pc, cookie, ctxID, sctx, hookOnce, hookOK,
                   hookErr, loadErr, w, wret, calls, hookRuns, nreq, tc, ta, mu, heap>>

\* a goroutine enters a flash method: its body starts at once
FlashCall ==
    /\ pc = "handler"
    /\ nops < MaxGoCalls
    /\ \E g \in Goroutines, op \in FlashMethods :
          /\ gor[g].at = "idle"
          /\ gor' = [gor EXCEPT ![g] = [op |-> op, at |-> "flash"]]
    /\ nops' = nops + 1
    /\ UNCHANGED <<m, contents, now, nextId, jar, pc, cookie, ctxID, sctx, hookOnce, hookOK,
                   hookErr, loadErr, w, wret, calls, hookRuns, nreq, tc, ta, mu, heap>>

\* the body of the flash method has read and written the record and save
FlashReturn ==
    /\ \E g \in Goroutines :
          /\ gor[g].at = "flash"
          /\ sctx' = FlashBody(sctx, gor[g].op)
          /\ gor' = [gor EXCEPT ![g] = NotCalling]
    /\ UNCHANGED <<m, contents, now, nextId, jar, pc, cookie, ctxID, hookOnce, hookOK,
                   hookErr, loadErr, w, wret, calls, hookRuns, nreq, nops, tc, ta, mu, heap>>

NextShared ==
    \/ WrapEnterOnce
    \/ MutatorCall
    \/ RWMutexLockPending
    \/ RWMutexLockAcquire
    \/ WriteReturn
    \/ FlashCall
    \/ FlashReturn
    \/ GoWrite
    \/ OnceEnter
    \/ HookFinish
    \/ GoWriteReturn
    \/ WrapReturnJoined

SpecShared == Init /\ [][NextShared]_vars

\* C33: while a goroutine is inside the body of Set, SetAll, Delete or Reset
\* (holding the session lock), no other goroutine of the request is inside
\* the body of a flash method or inside the save hook, reading or writing
\* the record, the cached bytes or the flags.
C33_AllAccessLocked ==
    \A g1 \in Goroutines, g2 \in Goroutines :
        (g1 # g2 /\ gor[g1].at = "writing") => gor[g2].at \notin {"flash", "hook"}


\* C34: once the hook has returned false, no chunk written by the handler
\* reaches the underlying ResponseWriter: the body holds the error response
\* only, whichever Write call ran the hook.
C34_InterruptedStaysInterrupted ==
    (pc \in {"handler", "done"} /\ hookOnce /\ ~hookOK) => Passed(w) = 0


\* ------------------------------------------- touch against re-encoding
\* One client, one request after another, each carrying the session cookie
\* the response before it set.  Next to the program runs a second copy in
\* which every touch encodes the stamped record again instead of storing the
\* loaded bytes; the copy's KV, cookie and identifier counter are kept in tc.
MaxTouchTime == 5
MaxTouchReq == 4
TouchIdleTicks == 3
TouchLifeTicks == 4

TouchManagers ==
    {x \in {Manager(mode, TheAEAD, FALSE, SessionCookieName, ml, it) :
                mode \in {storageModeCookie, storageModeKV},
                ml \in {0, TouchLifeTicks}, it \in {0, TouchIdleTicks}} :
        ValidOpts(x.MaxLifetime, x.IdleTimeout)}

\* the request's cookie loads and decodes: Wrap keeps the decoded record
SessionFound(kv, ck, clock) ==
    LET Decodes(loaded) ==
            loaded.err = "" /\ loaded.data # NilBytes /\ gobDecode(loaded.data).err = ""
    IN Decodes(loadSession(m, kv, ck, clock, FALSE))

\* the hook of the copy: where the program touches, the copy saves the
\* record under the identifier of the request
ReencodingHook(mgr, ck, s, e, clock) ==
    IF ~s.save /\ ~s.delete /\ ~s.reset /\ mgr.IdleTimeout # 0 /\ s.datab # NilBytes
    THEN saveHook(mgr, ck, [s EXCEPT !.save = TRUE],
                  [e EXCEPT !.ctxID = IF @ = NoID /\ ck # NoCookie THEN ck ELSE @],
                  clock, FALSE, FALSE)
    ELSE saveHook(mgr, ck, s, e, clock, FALSE, FALSE)

NotWritten == [wrote |-> FALSE]

\* the expiry a hook wrote: of the row under the identifier of the response,
\* or inside the value of the session cookie of the response
ExpiryWritten(e) ==
    LET Kept == SelectSeq(e.header, LAMBDA c : c.name = m.cookieName /\ c.maxAge >= 0)
        Header(pt) == IF pt.t = "zlib" THEN pt.body.sec ELSE pt.sec
    IN IF m.storageMode = storageModeKV
       THEN IF \E i \in 1..Len(e.calls) : e.calls[i].op = "Set"
            THEN [wrote |-> TRUE, at |-> kvAt(e.contents, managerHashSessionID(e.ctxID)).expiresAt]
            ELSE NotWritten
       ELSE IF Kept # <<>>
            THEN [wrote |-> TRUE, at |-> FromUnix(Header(DecryptedPayload(Kept[Len(Kept)].value)))]
            ELSE NotWritten

\* the session cookie the client holds after a response
ClientCookie(old, header) ==
    LET Lines == SelectSeq(header, LAMBDA c : c.name = m.cookieName)
    IN IF Lines = <<>> THEN old
       ELSE IF Lines[Len(Lines)].maxAge < 0 THEN NoCookie
       ELSE Lines[Len(Lines)].value

TouchHandler(op, s) ==
    CASE op = "Set" -> SessionSet(s, "b", "1")
      [] op = "Reset" -> SessionReset(s)
      [] op = "Delete" -> SessionDelete(s)
      [] op = "DeleteSet" -> SessionSet(SessionDelete(s), "b", "1")
      [] OTHER -> s

InitTouch ==
    /\ m \in TouchManagers
    /\ contents = {}
    /\ NoRequestYet
    /\ tc = [stage |-> "touch", contents |-> {}, cookie |-> NoCookie, nextId |-> 1,
             wrote |-> NotWritten, copyWrote |-> NotWritten, stale |-> FALSE, op |-> "none",
             at |-> 0, born |-> 0]
    /\ ta = NoCase

\* one request through Wrap: load, handler, hook, in the program and the copy
TouchRequest(op) ==
    /\ tc.stage = "touch"
    /\ nreq < MaxTouchReq
    /\ LET Done(ld, cld, h, ch) ==
               /\ contents' = h.e.contents
               /\ nextId' = h.e.nextId
               /\ cookie' = ClientCookie(cookie, h.e.header)
               /\ tc' = [stage |-> "touch", contents |-> ch.e.contents,
                         cookie |-> ClientCookie(tc.cookie, ch.e.header),
                         nextId |-> ch.e.nextId,
                         wrote |-> ExpiryWritten(h.e), copyWrote |-> ExpiryWritten(ch.e),
                         stale |-> /\ ld.sctx.datab # NilBytes
                                   /\ ld.sctx.sessdata.UpdatedAt # cld.sctx.sessdata.UpdatedAt,
                         op |-> op, at |-> now,
                         born |-> IF SessionFound(contents, cookie, now) THEN tc.born ELSE now]
           Hooked(ld, cld) ==
               Done(ld, cld,
                    saveHook(m, cookie, TouchHandler(op, ld.sctx),
                             Effects(ld.contents, <<>>, 0, <<>>, NoID, nextId, <<>>),
                             now, FALSE, FALSE),
                    ReencodingHook(m, tc.cookie, TouchHandler(op, cld.sctx),
                                   Effects(cld.contents, <<>>, 0, <<>>, NoID, tc.nextId, <<>>),
                                   now))
       IN Hooked(WrapLoad(m, contents, cookie, now, FALSE),
                 WrapLoad(m, tc.contents, tc.cookie, now, FALSE))
    /\ nreq' = nreq + 1
    /\ UNCHANGED <<m, now, jar, pc, ctxID, sctx, hookOnce, hookOK, hookErr, loadErr,
                   w, wret, calls, hookRuns, nops, ta, mu, gor, heap>>

TouchOnly == TouchRequest("none")
TouchSet == TouchRequest("Set")
TouchReset == TouchRequest("Reset")
TouchDelete == TouchRequest("Delete")
TouchRearm == TouchRequest("DeleteSet")

TouchTick ==
    /\ tc.stage = "touch"
    /\ now < MaxTouchTime
    /\ now' = now + 1
    /\ UNCHANGED <<m, contents, nextId, jar, pc, cookie, ctxID, sctx, hookOnce, hookOK,
                   hookErr, loadErr, w, wret, calls, hookRuns, nreq, nops, tc, ta, mu, gor, heap>>

NextTouch == TouchOnly \/ TouchSet \/ TouchReset \/ TouchDelete \/ TouchRearm \/ TouchTick

SpecTouch == InitTouch /\ [][NextTouch]_vars

\* C35: for every sequence of requests, the expiry each hook writes to the
\* store or embeds in the cookie equals the expiry the same step writes in
\* the copy whose touches encode the record again with UpdatedAt = now: the
\* UpdatedAt left inside the touched bytes never enters an expiry.
C35_TouchEqualsReencode ==
    tc.stage = "touch" => tc.wrote = tc.copyWrote

\* a request loaded bytes whose UpdatedAt is older than the copy's (an
\* earlier touch left them behind) and its hook wrote an expiry
C35_Witness ==
    /\ tc.stage = "touch"
    /\ tc.stale
    /\ tc.wrote.wrote
    /\ tc.op = "none"


\* C36: a value Set after Delete in the same request is persisted as a new
\* session: the hook writes an expiry that lies after the time of the
\* request, and a request that carries the returned cookie at that time
\* loads a record created at the time of the request and reads the value.
C36_RearmPersists ==
    (tc.stage = "touch" /\ tc.op = "DeleteSet")
        => /\ tc.wrote.wrote
           /\ tc.wrote.at > tc.at
           /\ now = tc.at
                 => /\ WrapLoad(m, contents, cookie, now, FALSE).sctx.sessdata.CreatedAt = tc.at
                    /\ SessionGet(WrapLoad(m, contents, cookie, now, FALSE).sctx, "b") = "1"


\* C37: with MaxLifetime configured, every expiry a hook writes to the KV
\* or embeds in a cookie is at most the time at which the client's session
\* was first created plus MaxLifetime, whatever saves, touches and Resets
\* (with their identifier rotation) came before.
C37_AbsoluteLifetime ==
    (tc.stage = "touch" /\ m.MaxLifetime # 0 /\ tc.wrote.wrote)
        => tc.wrote.at <= tc.born + m.MaxLifetime

\* a Reset in a later request of the session wrote the absolute bound
C37_Witness ==
    /\ tc.stage = "touch"
    /\ m.MaxLifetime # 0 /\ m.IdleTimeout # 0
    /\ tc.op = "Reset"
    /\ tc.born < tc.at
    /\ tc.wrote.wrote
    /\ tc.wrote.at = tc.born + m.MaxLifetime


\* the hook of a request that loaded a session and called Reset fails in
\* its store step
ResetStoreFails ==
    /\ ~hookOnce /\ hookOnce'
    /\ sctx.reset
    /\ cookie # NoCookie /\ loadErr = ""
    /\ m.storageMode = storageModeKV => kvHas(contents, managerHashSessionID(cookie))
    /\ ~hookOK'
    /\ hookErr' \in {"storing in KV", "encoding session data", "cookie size is greater than max"}

\* C38: when the store step of the hook fails during a Reset, the session
\* of the request is left intact: in KV mode its row is still in the store
\* under the hash of the request's identifier, and the error response
\* carries no Set-Cookie line that deletes the session cookie.
C38_FailedResetKeepsSession ==
    [][ResetStoreFails
          => /\ m.storageMode = storageModeKV => kvHas(contents', managerHashSessionID(cookie))
             /\ \A i \in 1..Len(w'.header) :
                    ~(w'.header[i].name = m.cookieName /\ w'.header[i].maxAge < 0)]_vars


\* ------------------------------------------- memoryKV under goroutines
\* Goroutines call Get, Set and Delete of one memoryKV.  contentsMu is mu;
\* RWMutexRLock, RWMutexLockPending and RWMutexLockAcquire are its RLock and
\* Lock.  A goroutine is at "reading" or "writing" once it holds the lock and
\* has not yet touched the map, and at "deleting" when Get has found the
\* entry expired and is about to run delete(m.contents, key).
MaxMemCalls == 3

InitMem ==
    /\ m = Manager(storageModeKV, TheAEAD, FALSE, SessionCookieName, 0, IdleTicks)
    /\ contents = {}
    /\ NoRequestYet
    /\ tc = [stage |-> "mem"]
    /\ ta = NoCase

\* a goroutine calls Get, Set or Delete
MemCall ==
    /\ tc.stage = "mem"
    /\ nops < MaxMemCalls
    /\ \E g \in Goroutines, op \in {"Get", "Set", "Delete"}, key \in KVKeys,
          expiresAt \in KVExpiries :
          /\ gor[g].at = "idle"
          /\ op # "Set" => expiresAt = 0
          /\ gor' = [gor EXCEPT ![g] = [op |-> op, at |-> IF op = "Get" THEN "RLock" ELSE "Lock",
                                         key |-> key, expiresAt |-> expiresAt]]
    /\ nops' = nops + 1
    /\ UNCHANGED <<m, contents, now, nextId, jar, pc, cookie, ctxID, sctx, hookOnce, hookOK,
                   hookErr, loadErr, w, wret, calls, hookRuns, nreq, tc, ta, mu, heap>>

\* Get under RLock: v, ok := m.contents[key] and the expiry test; it returns
\* (deferred RUnlock) unless the entry has expired
MemGetLookup ==
    /\ tc.stage = "mem"
    /\ \E g \in Goroutines :
          /\ gor[g].at = "reading"
          /\ IF kvHas(contents, gor[g].key) /\ now > kvAt(contents, gor[g].key).expiresAt
             THEN gor' = [gor EXCEPT ![g].at = "deleting"] /\ mu' = mu
             ELSE gor' = [gor EXCEPT ![g] = NotCalling] /\ mu' = [mu EXCEPT !.readers = @ - 1]
    /\ UNCHANGED <<m, contents, now, nextId, jar, pc, cookie, ctxID, sctx, hookOnce, hookOK,
                   hookErr, loadErr, w, wret, calls, hookRuns, nreq, nops, tc, ta, heap>>

\* Get, still under RLock: delete(m.contents, key), return, deferred RUnlock
MemGetDelete ==
    /\ tc.stage = "mem"
    /\ \E g \in Goroutines :
          /\ gor[g].at = "deleting"
          /\ contents' = memoryKVDelete(contents, gor[g].key)
          /\ gor' = [gor EXCEPT ![g] = NotCalling]
    /\ mu' = [mu EXCEPT !.readers = @ - 1]
    /\ UNCHANGED <<m, now, nextId, jar, pc, cookie, ctxID, sctx, hookOnce, hookOK,
                   hookErr, loadErr, w, wret, calls, hookRuns, nreq, nops, tc, ta, heap>>

\* Set or Delete under Lock: the map write, return, deferred Unlock
MemWriteReturn ==
    /\ tc.stage = "mem"
    /\ \E g \in Goroutines :
          /\ gor[g].at = "writing"
          /\ contents' = IF gor[g].op = "Set"
                         THEN memoryKVSet(contents, gor[g].key, gor[g].expiresAt, Raw("v1", 5, 5))
                         ELSE memoryKVDelete(contents, gor[g].key)
          /\ gor' = [gor EXCEPT ![g] = NotCalling]
    /\ mu' = [mu EXCEPT !.writer = FALSE, !.w = FALSE]
    /\ UNCHANGED <<m, now, nextId, jar, pc, cookie, ctxID, sctx, hookOnce, hookOK,
                   hookErr, loadErr, w, wret, calls, hookRuns, nreq, nops, tc, ta, heap>>

MemTick ==
    /\ tc.stage = "mem"
    /\ now < MaxTime
    /\ now' = now + 1
    /\ UNCHANGED <<m, contents, nextId, jar, pc, cookie, ctxID, sctx, hookOnce, hookOK,
                   hookErr, loadErr, w, wret, calls, hookRuns, nreq, nops, tc, ta, mu, gor, heap>>

NextMem ==
    \/ MemCall
    \/ RWMutexRLock
    \/ RWMutexLockPending
    \/ RWMutexLockAcquire
    \/ MemGetLookup
    \/ MemGetDelete
    \/ MemWriteReturn
    \/ MemTick

SpecMem == InitMem /\ [][NextMem]_vars

\* C39: memoryKV modifies its map only under the write lock: a goroutine
\* about to delete an entry holds contentsMu for writing, so no other
\* goroutine is reading the map or deleting from it at the same time.
C39_MapWritesUnderLock ==
    tc.stage = "mem"
       => \A g1 \in Goroutines :
             gor[g1].at = "deleting"
                => /\ mu.writer
                   /\ \A g2 \in Goroutines \ {g1} : gor[g2].at \notin {"reading", "deleting"}


\* C40: the hook decides at the first Write or WriteHeader.  Once it has
\* run, no step of the request (Set, SetAll, Delete, Reset, a flash call, a
\* later Write or WriteHeader, the return of the handler) changes the KV,
\* makes a KV call, changes the identifier of the request or changes the
\* session cookie lines of the response.
C40_DecidedAtFirstWrite ==
    [][(pc = "handler" /\ hookOnce)
          => /\ contents' = contents
             /\ calls' = calls
             /\ ctxID' = ctxID /\ nextId' = nextId
             /\ SessionLines(w'.header) = SessionLines(w.header)]_vars

\* a request without a session wrote first and called Set afterwards; it has
\* returned with the save flag set, no KV call and no session cookie
C40_Witness ==
    /\ pc = "done"
    /\ cookie = NoCookie
    /\ hookOK /\ hookErr = ""
    /\ Passed(w) = 1
    /\ sctx.save /\ ~sctx.delete /\ ~sctx.reset
    /\ calls = <<>>
    /\ SessionLines(w.header) = <<>>


====
